---- MODULE Spec2Model ----
(***************************************************************************)
(* Casa Moringa: the in-memory entity store (server/storage.ts) and the    *)
(* WhatsApp messaging gateway (server/whatsapp-service.ts).                *)
(*                                                                         *)
(* Records are functions from field names to values; a field that is       *)
(* `undefined` in JavaScript is a key missing from the function's domain,  *)
(* `null` is the value NULL.  A value that may be `undefined` as a whole   *)
(* (the result of Map.get, of a lookup) is a sequence of length 0 or 1.    *)
(* A JavaScript Map is the sequence of its entries in insertion order.     *)
(***************************************************************************)
EXTENDS Integers, Sequences, FiniteSets, TLC

VARIABLES
    properties,        \* MemStorage.properties
    guests,            \* MemStorage.guests
    bookings,          \* MemStorage.bookings
    maintenanceTasks,  \* MemStorage.maintenanceTasks
    expenses,          \* MemStorage.expenses
    messages,          \* MemStorage.messages
    uuids,             \* how many ids randomUUID() has handed out
    now,               \* the clock read by new Date()
    config,            \* WhatsAppService.config (<<>> is null)
    inflight,          \* send calls suspended at `await axios.post`
    last,              \* the last call: its name, arguments and outcome
    ops                \* how many calls have been made

vars == <<properties, guests, bookings, maintenanceTasks, expenses, messages,
          uuids, now, config, inflight, last, ops>>

store == <<properties, guests, bookings, maintenanceTasks, expenses, messages>>

-----------------------------------------------------------------------------
(* Bounds of the model *)

MaxOps == 3
MaxInflight == 1

-----------------------------------------------------------------------------
(* JavaScript values *)

NULL == "null"
EmptyObj == <<>>
None == <<>>
Some(x) == <<x>>

Has(o, f) == f \in DOMAIN o

\* { ...a, ...b }
Spread(a, b) ==
    [f \in (DOMAIN a) \cup (DOMAIN b) |-> IF f \in DOMAIN b THEN b[f] ELSE a[f]]

\* o.f ?? d, for a field that may be undefined or null
Coalesce(o, f, d) == IF Has(o, f) /\ o[f] /= NULL THEN o[f] ELSE d

\* o.f ?? d, for a field whose insert type admits undefined but not null
Default(o, f, d) == IF Has(o, f) THEN o[f] ELSE d

\* the truthiness of a string-or-null value
Truthy(s) == s /= NULL /\ s /= ""

\* a || null
OrNull(o, f) == IF Has(o, f) /\ Truthy(o[f]) THEN o[f] ELSE NULL

Range(s) == {s[i] : i \in 1..Len(s)}

-----------------------------------------------------------------------------
(* Map<string, T>: entries [k, v] in insertion order *)

Keys(m) == {m[i].k : i \in 1..Len(m)}

MapHas(m, key) == key \in Keys(m)

MapIdx(m, key) == CHOOSE i \in 1..Len(m) : m[i].k = key

MapGet(m, key) == IF MapHas(m, key) THEN Some(m[MapIdx(m, key)].v) ELSE None

MapSet(m, key, val) ==
    IF MapHas(m, key)
    THEN [m EXCEPT ![MapIdx(m, key)] = [k |-> key, v |-> val]]
    ELSE Append(m, [k |-> key, v |-> val])

\* MapDelete with the filter inverted
MapDeleteInverted(m, key) == SelectSeq(m, LAMBDA e : e.k = key)

MapDelete(m, key) == SelectSeq(m, LAMBDA e : e.k /= key)

\* crypto.randomUUID(): the n-th id handed out; never empty, never repeated
UuidPool == <<"u1", "u2", "u3", "u4", "u5", "u6", "u7", "u8", "u9">>
randomUUID(n) == UuidPool[n + 1]

\* an id that randomUUID never produces (a caller-supplied reference)
Ghost == "ghost"
Refs(m) == Keys(m) \cup {Ghost}

-----------------------------------------------------------------------------
(* The records create*() builds (storage.ts) *)

newProperty(property, id, createdAt) ==
    Spread(Spread(property,
                  [description |-> Coalesce(property, "description", NULL),
                   maxGuests   |-> Default(property, "maxGuests", 1)]),
           [id |-> id, createdAt |-> createdAt])

newGuest(guest, id, createdAt) ==
    Spread(Spread(guest,
                  [cpf        |-> Coalesce(guest, "cpf", NULL),
                   street     |-> Coalesce(guest, "street", NULL),
                   number     |-> Coalesce(guest, "number", NULL),
                   complement |-> Coalesce(guest, "complement", NULL),
                   city       |-> Coalesce(guest, "city", NULL),
                   state      |-> Coalesce(guest, "state", NULL),
                   zipCode    |-> Coalesce(guest, "zipCode", NULL),
                   document   |-> Coalesce(guest, "document", NULL),
                   notes      |-> Coalesce(guest, "notes", NULL)]),
           [id |-> id, createdAt |-> createdAt])

newBooking(booking, id, createdAt) ==
    Spread(Spread(booking,
                  [status |-> Coalesce(booking, "status", "confirmed"),
                   notes  |-> Coalesce(booking, "notes", NULL)]),
           [id |-> id, createdAt |-> createdAt])

newTask(task, id, createdAt) ==
    Spread(Spread(task,
                  [status      |-> Coalesce(task, "status", "pending"),
                   description |-> Coalesce(task, "description", NULL),
                   notes       |-> Coalesce(task, "notes", NULL),
                   assignedTo  |-> Coalesce(task, "assignedTo", NULL),
                   cost        |-> Coalesce(task, "cost", NULL)]),
           [id |-> id, createdAt |-> createdAt])

newExpense(expense, id, createdAt) ==
    Spread(Spread(expense,
                  [receipt |-> Coalesce(expense, "receipt", NULL)]),
           [id |-> id, createdAt |-> createdAt])

\* newMessage with the wrong default for direction
newMessageWrongDefault(message, id, sentAt) ==
    Spread(Spread(message,
                  [guestId           |-> Coalesce(message, "guestId", NULL),
                   bookingId         |-> Coalesce(message, "bookingId", NULL),
                   subject           |-> Coalesce(message, "subject", NULL),
                   type              |-> Coalesce(message, "type", "general"),
                   channel           |-> Coalesce(message, "channel", "internal"),
                   direction         |-> Coalesce(message, "direction", "incoming"),
                   whatsappMessageId |-> Coalesce(message, "whatsappMessageId", NULL),
                   whatsappStatus    |-> Coalesce(message, "whatsappStatus", NULL),
                   fromNumber        |-> Coalesce(message, "fromNumber", NULL),
                   toNumber          |-> Coalesce(message, "toNumber", NULL),
                   isRead            |-> Default(message, "isRead", FALSE)]),
           [id |-> id, sentAt |-> sentAt])

newMessage(message, id, sentAt) ==
    Spread(Spread(message,
                  [guestId           |-> Coalesce(message, "guestId", NULL),
                   bookingId         |-> Coalesce(message, "bookingId", NULL),
                   subject           |-> Coalesce(message, "subject", NULL),
                   type              |-> Coalesce(message, "type", "general"),
                   channel           |-> Coalesce(message, "channel", "internal"),
                   direction         |-> Coalesce(message, "direction", "outgoing"),
                   whatsappMessageId |-> Coalesce(message, "whatsappMessageId", NULL),
                   whatsappStatus    |-> Coalesce(message, "whatsappStatus", NULL),
                   fromNumber        |-> Coalesce(message, "fromNumber", NULL),
                   toNumber          |-> Coalesce(message, "toNumber", NULL),
                   isRead            |-> Default(message, "isRead", FALSE)]),
           [id |-> id, sentAt |-> sentAt])

\* initializeData(): the property the constructor stores
defaultProperty(id, createdAt) ==
    [id |-> id, name |-> "Casa da Praia", description |-> "Beautiful beachfront",
     maxGuests |-> 6, createdAt |-> createdAt]

-----------------------------------------------------------------------------
(* Reads (storage.ts) *)

getProperty(id) == MapGet(properties, id)

getGuest(id) == MapGet(guests, id)

\* Array.from(this.guests.values()).find(guest => guest.email === email);
\* email is "undefined" for a caller that passes none
getGuestByEmail(email) ==
    LET hits == {i \in 1..Len(guests) :
                    (IF Has(guests[i].v, "email") THEN guests[i].v.email
                     ELSE "undefined") = email} IN
    IF hits = {} THEN None
    ELSE Some(guests[CHOOSE i \in hits : \A j \in hits : i <= j].v)

getMaintenanceTask(id) == MapGet(maintenanceTasks, id)

getExpense(id) == MapGet(expenses, id)

\* the element getBookings() maps one booking to: guest! and property! are
\* whatever the lookups returned
bookingWithGuest(booking) ==
    Spread(booking, [guest    |-> getGuest(booking.guestId),
                     property |-> getProperty(booking.propertyId)])

getBookings == [i \in 1..Len(bookings) |-> bookingWithGuest(bookings[i].v)]

\* the lookup without the test of the two references
getBookingNoCheck(id) ==
    LET booking == MapGet(bookings, id) IN
    IF booking = None THEN None
    ELSE Some(bookingWithGuest(booking[1]))

getBooking(id) ==
    LET booking == MapGet(bookings, id) IN
    IF booking = None THEN None
    ELSE IF getGuest(booking[1].guestId) = None
            \/ getProperty(booking[1].propertyId) = None THEN None
    ELSE Some(bookingWithGuest(booking[1]))

getBookingsByProperty(propertyId) ==
    SelectSeq(getBookings, LAMBDA booking : booking.propertyId = propertyId)

getBookingsByGuest(guestId) ==
    SelectSeq(getBookings, LAMBDA booking : booking.guestId = guestId)

\* inDateRange with exclusive bounds
inDateRangeExclusive(booking, startDate, endDate) ==
    booking.checkIn < endDate /\ booking.checkOut > startDate

\* the filter of getBookingsByDateRange
inDateRange(booking, startDate, endDate) ==
    booking.checkIn <= endDate /\ booking.checkOut >= startDate

getBookingsByDateRange(startDate, endDate) ==
    SelectSeq(getBookings, LAMBDA booking : inDateRange(booking, startDate, endDate))

\* messageWithRelations embedding the booking straight from the bookings map
messageWithStoredBooking(message) ==
    Spread(message,
           [guest   |-> IF Truthy(message.guestId)
                        THEN getGuest(message.guestId) ELSE None,
            booking |-> IF Truthy(message.bookingId)
                        THEN MapGet(bookings, message.bookingId) ELSE None])

\* the element getMessages() and getMessage() build from one message
messageWithRelations(message) ==
    Spread(message,
           [guest   |-> IF Truthy(message.guestId)
                        THEN getGuest(message.guestId) ELSE None,
            booking |-> IF Truthy(message.bookingId)
                        THEN getBooking(message.bookingId) ELSE None])

getMessages == [i \in 1..Len(messages) |-> messageWithRelations(messages[i].v)]

getMessage(id) ==
    LET message == MapGet(messages, id) IN
    IF message = None THEN None ELSE Some(messageWithRelations(message[1]))

getMessagesByChannel(channel) ==
    SelectSeq(getMessages, LAMBDA message : message.channel = channel)

\* getWhatsAppMessages that looks at fromNumber only
getWhatsAppMessagesFromOnly(phoneNumber) ==
    LET whatsappMessages == getMessagesByChannel("whatsapp") IN
    IF phoneNumber = None \/ phoneNumber[1] = "" THEN whatsappMessages
    ELSE SelectSeq(whatsappMessages,
                   LAMBDA message : message.fromNumber = phoneNumber[1])

\* getWhatsAppMessages(phoneNumber?): None is the call without the argument
getWhatsAppMessages(phoneNumber) ==
    LET whatsappMessages == getMessagesByChannel("whatsapp") IN
    IF phoneNumber = None \/ phoneNumber[1] = "" THEN whatsappMessages
    ELSE SelectSeq(whatsappMessages,
                   LAMBDA message : \/ message.fromNumber = phoneNumber[1]
                                    \/ message.toNumber = phoneNumber[1])

-----------------------------------------------------------------------------
(* Inputs the calls are made with *)

PropertyInputs ==
    { [name |-> "Casa"],
      [name |-> "Vila", description |-> "d", maxGuests |-> 4] }

GuestInputs ==
    { [email |-> "a@x", phone |-> "11987654321"],
      [email |-> "b@x", phone |-> "5511987654321", notes |-> "n"] }

BookingShapes ==
    { [checkIn |-> 10, checkOut |-> 15],
      [checkIn |-> 20, checkOut |-> 25, status |-> "pending", notes |-> "n"] }

BookingInputs ==
    { Spread([checkIn |-> 10, checkOut |-> 15], [propertyId |-> p, guestId |-> g]) :
        p \in Refs(properties), g \in Refs(guests) }
    \cup { Spread(shape, [propertyId |-> p, guestId |-> g]) :
        shape \in BookingShapes, p \in Keys(properties), g \in Keys(guests) }

TaskInputs ==
    { [propertyId |-> p, title |-> "t", type |-> "cleaning"] : p \in Refs(properties) }
    \cup { [propertyId |-> p, title |-> "t", type |-> "repair",
            status |-> "in_progress", cost |-> "10.00"] : p \in Keys(properties) }

ExpenseInputs ==
    { [propertyId |-> p, category |-> "taxes", amount |-> "5.00"] : p \in Refs(properties) }
    \cup { [propertyId |-> p, category |-> "other", amount |-> "7.00",
            receipt |-> "r.pdf"] : p \in Keys(properties) }

WamIds == {"wamid1", "wamid2"}

\* the InsertMessage processIncomingMessage builds, as a direct input
IncomingShape ==
    [content |-> "ola", subject |-> "s", type |-> "reminder", channel |-> "whatsapp",
     direction |-> "incoming", whatsappMessageId |-> "wamid2",
     whatsappStatus |-> "received", fromNumber |-> "5511987654321",
     toNumber |-> "pn1", isRead |-> TRUE]

MessageRelations ==
    {EmptyObj}
    \cup {[guestId |-> g] : g \in Refs(guests)}
    \cup {[bookingId |-> b] : b \in Refs(bookings)}
    \cup {[guestId |-> g, bookingId |-> b] : g \in Keys(guests), b \in Keys(bookings)}

MessageInputs ==
    { Spread([content |-> "hi"], rel) : rel \in MessageRelations }
    \cup { IncomingShape }

\* partial inputs: the keys a caller may send, the protected ones included.
\* A call is a pair <<id, partial>>; an id that is not stored is tried once.
Protected(m, id, stamp) ==
    {[id |-> x] : x \in Refs(m) \ {id}} \cup {[f \in {stamp} |-> 99]}

Updates(m, stamp, change) ==
    { <<id, x>> : id \in Keys(m), x \in {EmptyObj, change} }
    \cup UNION { {<<id, x>> : x \in Protected(m, id, stamp)} : id \in Keys(m) }
    \cup { <<Ghost, change>> }

PropertyUpdates == Updates(properties, "createdAt", [name |-> "Nova", maxGuests |-> 2])
GuestUpdates    == Updates(guests, "createdAt", [phone |-> "987654321"])
BookingUpdates  == Updates(bookings, "createdAt", [status |-> "cancelled", checkOut |-> 12])
TaskUpdates     == Updates(maintenanceTasks, "createdAt", [status |-> "completed"])
ExpenseUpdates  == Updates(expenses, "createdAt", [amount |-> "9.00"])
MessageUpdates  == Updates(messages, "sentAt", [isRead |-> TRUE, subject |-> "s2"])

\* the partials of two callers updating the same record: one field they
\* both supply, and one each that only they supply
RacingBookingPartials ==
    { [status |-> "confirmed", notes |-> "a"],
      [status |-> "cancelled", checkOut |-> 12] }

RacingPropertyPartials ==
    { [name |-> "Nova", maxGuests |-> 2],
      [name |-> "Velha", address |-> "Paraty"] }

-----------------------------------------------------------------------------
(* Calls on the store.  Each records itself in `last`. *)

\* op(key, arg) on the collection of `kind` returned ret (ok: found / true)
Call(op, kind, key, arg, ret, ok) ==
    [op |-> op, kind |-> kind, key |-> key, arg |-> arg, ret |-> ret, ok |-> ok,
     err |-> ""]

Budget == ops < MaxOps

\* what every create*() does besides storing: randomUUID() and new Date() are used up
Created ==
    /\ uuids' = uuids + 1
    /\ now' = now + 1
    /\ ops' = ops + 1
    /\ UNCHANGED <<config, inflight>>

\* updated with the spread the wrong way round: { ...partial, ...existing }
updatedExistingWins(m, id, partial) ==
    IF MapHas(m, id)
    THEN MapSet(m, id, Spread(partial, MapGet(m, id)[1]))
    ELSE m

\* the write that stores the partial alone under the record's id
updatedReplaces(m, id, partial) ==
    IF MapHas(m, id)
    THEN MapSet(m, id, Spread([id |-> MapGet(m, id)[1].id], partial))
    ELSE m

\* the collection after update*(id, partial): { ...existing, ...partial } is
\* stored under id
updated(m, id, partial) ==
    IF MapHas(m, id)
    THEN MapSet(m, id, Spread(MapGet(m, id)[1], partial))
    ELSE m

\* the value update*(id, partial) returns
updateResult(m, id, partial) ==
    IF MapHas(m, id) THEN Some(Spread(MapGet(m, id)[1], partial)) ELSE None

NoTick == UNCHANGED <<uuids, now, config, inflight>>

createProperty(property) ==
    LET id == randomUUID(uuids)
        rec == newProperty(property, id, now) IN
    /\ Budget
    /\ properties' = MapSet(properties, id, rec)
    /\ last' = Call("create", "Property", id, <<property>>, Some(rec), TRUE)
    /\ Created
    /\ UNCHANGED <<guests, bookings, maintenanceTasks, expenses, messages>>

updateProperty(id, property) ==
    /\ Budget
    /\ properties' = updated(properties, id, property)
    /\ last' = Call("update", "Property", id, <<property>>,
                    updateResult(properties, id, property), MapHas(properties, id))
    /\ ops' = ops + 1
    /\ NoTick
    /\ UNCHANGED <<guests, bookings, maintenanceTasks, expenses, messages>>

deleteProperty(id) ==
    /\ Budget
    /\ properties' = MapDelete(properties, id)
    /\ last' = Call("delete", "Property", id, <<>>, None, MapHas(properties, id))
    /\ ops' = ops + 1
    /\ NoTick
    /\ UNCHANGED <<guests, bookings, maintenanceTasks, expenses, messages>>

createGuest(guest) ==
    LET id == randomUUID(uuids)
        rec == newGuest(guest, id, now) IN
    /\ Budget
    /\ guests' = MapSet(guests, id, rec)
    /\ last' = Call("create", "Guest", id, <<guest>>, Some(rec), TRUE)
    /\ Created
    /\ UNCHANGED <<properties, bookings, maintenanceTasks, expenses, messages>>

updateGuest(id, guest) ==
    /\ Budget
    /\ guests' = updated(guests, id, guest)
    /\ last' = Call("update", "Guest", id, <<guest>>,
                    updateResult(guests, id, guest), MapHas(guests, id))
    /\ ops' = ops + 1
    /\ NoTick
    /\ UNCHANGED <<properties, bookings, maintenanceTasks, expenses, messages>>

\* deleteGuest cascading to the guest's bookings
deleteGuestCascade(id) ==
    /\ Budget
    /\ guests' = MapDelete(guests, id)
    /\ bookings' = SelectSeq(bookings, LAMBDA e : e.v.guestId /= id)
    /\ last' = Call("delete", "Guest", id, <<>>, None, MapHas(guests, id))
    /\ ops' = ops + 1
    /\ NoTick
    /\ UNCHANGED <<properties, maintenanceTasks, expenses, messages>>

deleteGuest(id) ==
    /\ Budget
    /\ guests' = MapDelete(guests, id)
    /\ last' = Call("delete", "Guest", id, <<>>, None, MapHas(guests, id))
    /\ ops' = ops + 1
    /\ NoTick
    /\ UNCHANGED <<properties, bookings, maintenanceTasks, expenses, messages>>

createBooking(booking) ==
    LET id == randomUUID(uuids)
        rec == newBooking(booking, id, now) IN
    /\ Budget
    /\ bookings' = MapSet(bookings, id, rec)
    /\ last' = Call("create", "Booking", id, <<booking>>, Some(rec), TRUE)
    /\ Created
    /\ UNCHANGED <<properties, guests, maintenanceTasks, expenses, messages>>

updateBooking(id, booking) ==
    /\ Budget
    /\ bookings' = updated(bookings, id, booking)
    /\ last' = Call("update", "Booking", id, <<booking>>,
                    updateResult(bookings, id, booking), MapHas(bookings, id))
    /\ ops' = ops + 1
    /\ NoTick
    /\ UNCHANGED <<properties, guests, maintenanceTasks, expenses, messages>>

deleteBooking(id) ==
    /\ Budget
    /\ bookings' = MapDelete(bookings, id)
    /\ last' = Call("delete", "Booking", id, <<>>, None, MapHas(bookings, id))
    /\ ops' = ops + 1
    /\ NoTick
    /\ UNCHANGED <<properties, guests, maintenanceTasks, expenses, messages>>

createMaintenanceTask(task) ==
    LET id == randomUUID(uuids)
        rec == newTask(task, id, now) IN
    /\ Budget
    /\ maintenanceTasks' = MapSet(maintenanceTasks, id, rec)
    /\ last' = Call("create", "MaintenanceTask", id, <<task>>, Some(rec), TRUE)
    /\ Created
    /\ UNCHANGED <<properties, guests, bookings, expenses, messages>>

updateMaintenanceTask(id, task) ==
    /\ Budget
    /\ maintenanceTasks' = updated(maintenanceTasks, id, task)
    /\ last' = Call("update", "MaintenanceTask", id, <<task>>,
                    updateResult(maintenanceTasks, id, task), MapHas(maintenanceTasks, id))
    /\ ops' = ops + 1
    /\ NoTick
    /\ UNCHANGED <<properties, guests, bookings, expenses, messages>>

deleteMaintenanceTask(id) ==
    /\ Budget
    /\ maintenanceTasks' = MapDelete(maintenanceTasks, id)
    /\ last' = Call("delete", "MaintenanceTask", id, <<>>, None, MapHas(maintenanceTasks, id))
    /\ ops' = ops + 1
    /\ NoTick
    /\ UNCHANGED <<properties, guests, bookings, expenses, messages>>

createExpense(expense) ==
    LET id == randomUUID(uuids)
        rec == newExpense(expense, id, now) IN
    /\ Budget
    /\ expenses' = MapSet(expenses, id, rec)
    /\ last' = Call("create", "Expense", id, <<expense>>, Some(rec), TRUE)
    /\ Created
    /\ UNCHANGED <<properties, guests, bookings, maintenanceTasks, messages>>

updateExpense(id, expense) ==
    /\ Budget
    /\ expenses' = updated(expenses, id, expense)
    /\ last' = Call("update", "Expense", id, <<expense>>,
                    updateResult(expenses, id, expense), MapHas(expenses, id))
    /\ ops' = ops + 1
    /\ NoTick
    /\ UNCHANGED <<properties, guests, bookings, maintenanceTasks, messages>>

deleteExpense(id) ==
    /\ Budget
    /\ expenses' = MapDelete(expenses, id)
    /\ last' = Call("delete", "Expense", id, <<>>, None, MapHas(expenses, id))
    /\ ops' = ops + 1
    /\ NoTick
    /\ UNCHANGED <<properties, guests, bookings, maintenanceTasks, messages>>

createMessage(message) ==
    LET id == randomUUID(uuids)
        rec == newMessage(message, id, now) IN
    /\ Budget
    /\ messages' = MapSet(messages, id, rec)
    /\ last' = Call("create", "Message", id, <<message>>, Some(rec), TRUE)
    /\ Created
    /\ UNCHANGED <<properties, guests, bookings, maintenanceTasks, expenses>>

updateMessage(id, message) ==
    /\ Budget
    /\ messages' = updated(messages, id, message)
    /\ last' = Call("update", "Message", id, <<message>>,
                    updateResult(messages, id, message), MapHas(messages, id))
    /\ ops' = ops + 1
    /\ NoTick
    /\ UNCHANGED <<properties, guests, bookings, maintenanceTasks, expenses>>

deleteMessage(id) ==
    /\ Budget
    /\ messages' = MapDelete(messages, id)
    /\ last' = Call("delete", "Message", id, <<>>, None, MapHas(messages, id))
    /\ ops' = ops + 1
    /\ NoTick
    /\ UNCHANGED <<properties, guests, bookings, maintenanceTasks, expenses>>

-----------------------------------------------------------------------------
(* MemStorage.updateWhatsAppMessageStatus(whatsappMessageId, status) *)

\* messages.find(m => m.whatsappMessageId === whatsappMessageId): the first
\* match in the order of Array.from(this.messages.values())
\* the search falling back on the newest message when none matches
findInOrLast(m, whatsappMessageId) ==
    LET hits == {i \in 1..Len(m) : m[i].v.whatsappMessageId = whatsappMessageId} IN
    IF hits = {} THEN (IF Len(m) = 0 THEN None ELSE Some(m[Len(m)].v))
    ELSE Some(m[CHOOSE i \in hits : \A j \in hits : i <= j].v)

findIn(m, whatsappMessageId) ==
    LET hits == {i \in 1..Len(m) : m[i].v.whatsappMessageId = whatsappMessageId} IN
    IF hits = {} THEN None
    ELSE Some(m[CHOOSE i \in hits : \A j \in hits : i <= j].v)

findByWhatsAppId(whatsappMessageId) == findIn(messages, whatsappMessageId)

\* the call on a message collection m
statusUpdatedIn(m, whatsappMessageId, status) ==
    LET message == findIn(m, whatsappMessageId) IN
    IF message = None THEN m
    ELSE MapSet(m, message[1].id, Spread(message[1], [whatsappStatus |-> status]))

\* the collection after the call: the copy with the new status is stored
\* under message.id
statusUpdated(whatsappMessageId, status) ==
    LET message == findByWhatsAppId(whatsappMessageId) IN
    IF message = None THEN messages
    ELSE MapSet(messages, message[1].id,
                Spread(message[1], [whatsappStatus |-> status]))

\* the value the call returns
statusUpdateResult(whatsappMessageId, status) ==
    LET message == findByWhatsAppId(whatsappMessageId) IN
    IF message = None THEN None
    ELSE Some(Spread(message[1], [whatsappStatus |-> status]))

-----------------------------------------------------------------------------
(* WhatsAppService (whatsapp-service.ts) *)

Configs ==
    { [accessToken |-> "tok", phoneNumberId |-> "pn1", verifyToken |-> "vt"],
      [accessToken |-> "", phoneNumberId |-> "pn2", verifyToken |-> "vt"] }

\* a configuration counts as soon as one is set, whatever it holds
isConfiguredAnyConfig == config /= None

isConfigured ==
    /\ config /= None
    /\ config[1].accessToken /= ""
    /\ config[1].phoneNumberId /= ""

NotConfigured == "WhatsApp service not configured"

SendArgs == { [to |-> "5511987654321", message |-> "oi"] }

TemplateArgs == { [to |-> "5511987654321", templateName |-> "welcome"] }

\* how `await axios.post` ends: a 2xx response with its data, or an error
\* that carries its own message and, when the provider answered, the
\* provider's error message (error.response.data.error.message)
Responses ==
    { [status |-> 200, messages |-> <<[id |-> w]>>] : w \in WamIds }
    \cup { [status |-> 200, messages |-> <<>>],
           [status |-> 401, message |-> "Request failed with status code 401",
            error |-> "Invalid OAuth access token"],
           [status |-> 0, message |-> "Network Error"] }

\* the answers the outbound half is run against: accepted with an id,
\* accepted without one, rejected with and without a provider error message,
\* and no answer at all
SendResponses ==
    { r \in Responses : r.status = 200 => r.messages /= <<[id |-> "wamid2"]>> }
    \cup { [status |-> 500, message |-> "Request failed with status code 500"] }

\* configurations with an empty sender id
EmptySenderConfigs ==
    { [accessToken |-> "tok", phoneNumberId |-> "", verifyToken |-> "vt"] }

\* send arguments that name a guest and a booking
SendArgsWithRefs ==
    { [to |-> "5511987654321", message |-> "oi", guestId |-> "", bookingId |-> "u3"] }

TemplateArgsWithRefs ==
    { [to |-> "5511987654321", templateName |-> "checkin", guestId |-> "u2"] }

\* webhook payloads carrying statuses
StatusValues == {"delivered", "read", "failed"}

StatusPayloads ==
    { EmptyObj, [statuses |-> <<>>] }
    \cup { [statuses |-> <<[id |-> w, status |-> st]>>] : w \in WamIds, st \in StatusValues }
    \cup { [statuses |-> <<[id |-> "wamid1", status |-> "read"],
                           [id |-> "wamid2", status |-> "failed"]>>] }

\* op(arg) ended in an Error with message err
Failed(op, arg, err) ==
    [op |-> op, kind |-> "Gateway", key |-> "", arg |-> arg, ret |-> None,
     ok |-> FALSE, err |-> err]

setConfig(c) ==
    /\ config' = Some(c)
    /\ last' = Call("setConfig", "Gateway", "", <<c>>, None, TRUE)
    /\ UNCHANGED <<store, uuids, now, inflight, ops>>

\* a send call up to `await axios.post(url, data, { headers })`: the url and
\* the Authorization header are built from this.config before the call
\* suspends
sendCall(fn, args, content) ==
    /\ Budget
    /\ ops' = ops + 1
    /\ IF ~isConfigured
       THEN /\ last' = Failed(fn, <<args>>, NotConfigured)
            /\ UNCHANGED inflight
       ELSE /\ Len(inflight) < MaxInflight
            /\ inflight' = Append(inflight,
                   [fn |-> fn, args |-> args, content |-> content,
                    phoneNumberId |-> config[1].phoneNumberId,
                    accessToken |-> config[1].accessToken])
            /\ last' = Call(fn, "Gateway", "", <<args>>, None, TRUE)
    /\ UNCHANGED <<store, uuids, now, config>>

sendTextMessage(args) == sendCall("sendTextMessage", args, args.message)

\* `Template: ${templateName}`
templateLabel(templateName) ==
    CASE templateName = "welcome" -> "Template: welcome"
      [] templateName = "checkin" -> "Template: checkin"

sendTemplateMessage(args) ==
    sendCall("sendTemplateMessage", args, templateLabel(args.templateName))

\* messageData with the two numbers the wrong way round
sentMessageDataSwapped(call, response) ==
    [content |-> call.content, type |-> "general", channel |-> "whatsapp",
     direction |-> "outgoing", toNumber |-> config[1].phoneNumberId,
     fromNumber |-> call.args.to,
     whatsappMessageId |-> response.messages[1].id, whatsappStatus |-> "sent",
     guestId |-> OrNull(call.args, "guestId"),
     bookingId |-> OrNull(call.args, "bookingId"), isRead |-> FALSE]

\* the messageData a send call builds once the provider has answered
sentMessageData(call, response) ==
    [content |-> call.content, type |-> "general", channel |-> "whatsapp",
     direction |-> "outgoing", toNumber |-> call.args.to,
     fromNumber |-> config[1].phoneNumberId,
     whatsappMessageId |-> response.messages[1].id, whatsappStatus |-> "sent",
     guestId |-> OrNull(call.args, "guestId"),
     bookingId |-> OrNull(call.args, "bookingId"), isRead |-> FALSE]

\* error.message of what the try block threw: the axios error's own message,
\* or the TypeError of reading messages[0].id off a response without one
thrownMessage(response) ==
    IF response.status = 200 THEN "Cannot read properties of undefined (reading 'id')"
    ELSE response.message

fallbackMessage(fn) ==
    IF fn = "sendTextMessage" THEN "Failed to send WhatsApp message"
    ELSE "Failed to send WhatsApp template"

\* the catch block with the first two operands of || exchanged
sendErrorTransportFirst(fn, response) ==
    IF thrownMessage(response) /= "" THEN thrownMessage(response)
    ELSE IF Has(response, "error") /\ response.error /= "" THEN response.error
    ELSE fallbackMessage(fn)

\* the message of the Error a send call ends in:
\* error.response?.data?.error?.message || error.message || '<fallback>'
sendError(fn, response) ==
    IF Has(response, "error") /\ response.error /= "" THEN response.error
    ELSE IF thrownMessage(response) /= "" THEN thrownMessage(response)
    ELSE fallbackMessage(fn)

\* the provider answers the i-th suspended send call and the call runs to
\* its end
axiosPost(i, response) ==
    LET call == inflight[i]
        id == randomUUID(uuids) IN
    /\ UNCHANGED ops
    /\ inflight' = [j \in 1..(Len(inflight) - 1) |->
                        IF j < i THEN inflight[j] ELSE inflight[j + 1]]
    /\ IF response.status = 200 /\ Len(response.messages) > 0
       THEN LET rec == newMessage(sentMessageData(call, response), id, now) IN
            /\ messages' = MapSet(messages, id, rec)
            /\ last' = Call(call.fn, "Gateway", id, <<call.args, response>>,
                            Some(response), TRUE)
            /\ uuids' = uuids + 1
            /\ now' = now + 1
       ELSE /\ last' = Failed(call.fn, <<call.args, response>>,
                              sendError(call.fn, response))
            /\ UNCHANGED <<messages, uuids, now>>
    /\ UNCHANGED <<properties, guests, bookings, maintenanceTasks, expenses, config>>

-----------------------------------------------------------------------------
(* WhatsAppService.normalizePhoneNumber: a phone is the sequence of its characters *)

Digit == {"0", "1", "2", "3", "4", "5", "6", "7", "8", "9"}

IsDigit(c) == c \in Digit

\* phone.replace(/\D/g, '')
cleaned(phone) == SelectSeq(phone, IsDigit)

\* cleaned.startsWith(prefix)
startsWith(chars, prefix) ==
    Len(chars) >= Len(prefix) /\ SubSeq(chars, 1, Len(prefix)) = prefix

\* normalizePhoneNumber with the length-10 rule applied to 9 digits as well
normalizePhoneNumberNineToo(phone) ==
    LET c == cleaned(phone) IN
    IF Len(c) = 11 /\ startsWith(c, <<"1", "1">>) THEN <<"5", "5">> \o c
    ELSE IF Len(c) = 10 \/ Len(c) = 9 THEN <<"5", "5", "1", "1">> \o c
    ELSE IF Len(c) = 13 /\ startsWith(c, <<"5", "5">>) THEN c
    ELSE c

\* normalizePhoneNumber putting the area code in front of 9 digits
normalizePhoneNumberAreaFirst(phone) ==
    LET c == cleaned(phone) IN
    IF Len(c) = 11 /\ startsWith(c, <<"1", "1">>) THEN <<"5", "5">> \o c
    ELSE IF Len(c) = 10 THEN <<"5", "5", "1", "1">> \o c
    ELSE IF Len(c) = 9 THEN <<"1", "1">> \o c
    ELSE IF Len(c) = 13 /\ startsWith(c, <<"5", "5">>) THEN c
    ELSE c

normalizePhoneNumber(phone) ==
    LET c == cleaned(phone) IN
    IF Len(c) = 11 /\ startsWith(c, <<"1", "1">>) THEN <<"5", "5">> \o c
    ELSE IF Len(c) = 10 THEN <<"5", "5", "1", "1">> \o c
    ELSE IF Len(c) = 13 /\ startsWith(c, <<"5", "5">>) THEN c
    ELSE c

\* the characters of the phone strings that guests and contacts carry
Chars(s) ==
    CASE
         s = "11987654321" -> <<"1", "1", "9", "8", "7", "6", "5", "4", "3", "2", "1">>
      [] s = "5511987654321" -> <<"5", "5", "1", "1", "9", "8", "7", "6", "5", "4", "3", "2", "1">>
      [] s = "5521999990000" -> <<"5", "5", "2", "1", "9", "9", "9", "9", "9", "0", "0", "0", "0">>

\* the phones normalizePhoneNumber is run on: an optional country or area
\* prefix, plain or formatted, a subscriber number, and a tail
PhonePrefixes ==
    { <<>>, <<"1", "1">>, <<"5", "5">>, <<"5", "5", "1", "1">>, <<"2", "1">>,
      <<"+", "5", "5", " ">>, <<"(", "1", "1", ")", " ">> }

PhoneBodies ==
    { <<"9", "8", "7", "6", "5", "4", "3", "2", "1">>,
      <<"8", "7", "6", "5", "4", "3", "2", "1">>,
      <<"9", "8", "7", "6", "5", "-", "4", "3", "2", "1">>,
      <<"7", "6", "5", "4", "3", "2", "1">>,
      <<"1", "1", "9", "8", "7", "6", "5", "4", "3", "2", "1">> }

PhoneTails == { <<>>, <<"0">>, <<" ">>, <<"0", "0">> }

Phones == { a \o b \o c : a \in PhonePrefixes, b \in PhoneBodies, c \in PhoneTails }

\* one call of normalizePhoneNumber(phone)
normalize(phone) ==
    /\ last' = Call("normalizePhoneNumber", "Gateway", "", <<phone>>,
                    Some(normalizePhoneNumber(phone)), TRUE)
    /\ UNCHANGED <<store, uuids, now, config, inflight, ops>>

-----------------------------------------------------------------------------
(* Webhook payloads: the JSON the provider posts, as the handlers read it.
   An object is a record, an array a sequence of records. A place that holds
   something else is a record [js |-> <what it holds>]; a payload lists in
   `scalars` the fields that hold a string or a number instead of an array. *)

UNDEFINED == "undefined"

IsNullish(v) == Has(v, "js") /\ v.js \in {"null", "undefined"}

ScalarAt(p, f) == Has(p, "scalars") /\ f \in p.scalars

\* !p.f || p.f.length === 0
Empty(p, f) ==
    IF ~Has(p, f) THEN TRUE
    ELSE IF ScalarAt(p, f) THEN FALSE
    ELSE Len(p[f]) = 0

\* the newest element taken instead of the first
LastOf(p, f) ==
    IF ~Has(p, f) THEN [js |-> "undefined"]
    ELSE IF ScalarAt(p, f)
         THEN IF p[f].js = "string" THEN [js |-> "character"] ELSE [js |-> "undefined"]
    ELSE IF Len(p[f]) = 0 THEN [js |-> "undefined"]
    ELSE p[f][Len(p[f])]

\* p.f?.[0]: an element of an array, a character of a string, else undefined
First(p, f) ==
    IF ~Has(p, f) THEN [js |-> "undefined"]
    ELSE IF ScalarAt(p, f)
         THEN IF p[f].js = "string" THEN [js |-> "character"] ELSE [js |-> "undefined"]
    ELSE IF Len(p[f]) = 0 THEN [js |-> "undefined"]
    ELSE p[f][1]

\* o.f
Field(o, f) == IF Has(o, f) THEN o[f] ELSE UNDEFINED

WellFormedMessage == [id |-> "wamid2", text |-> [body |-> "ola"]]

Contact == [wa_id |-> "5511987654321"]

IncomingPayloads ==
    { [messages |-> <<WellFormedMessage>>, contacts |-> <<Contact>>],
      [messages |-> <<[id |-> "wamid1", image |-> [id |-> "img"]], WellFormedMessage>>,
       contacts |-> <<[wa_id |-> "5521999990000"], Contact>>] }

MalformedIncoming ==
    { EmptyObj,
      [js |-> "null"],
      [messages |-> <<>>],
      [messages |-> <<WellFormedMessage>>],
      [messages |-> <<WellFormedMessage>>, contacts |-> <<>>],
      [messages |-> <<WellFormedMessage>>, contacts |-> <<[profile |-> "Ana"]>>],
      [messages |-> <<[js |-> "null"]>>, contacts |-> <<Contact>>],
      [messages |-> <<[type |-> "sticker"]>>, contacts |-> <<Contact>>],
      [messages |-> [js |-> "number"], contacts |-> <<Contact>>,
       scalars |-> {"messages"}],
      [messages |-> [js |-> "string"], contacts |-> <<Contact>>,
       scalars |-> {"messages"}],
      [messages |-> <<WellFormedMessage>>, contacts |-> [js |-> "string"],
       scalars |-> {"contacts"}, metadata |-> "m"] }

MalformedStatusPayloads ==
    { [js |-> "null"],
      [statuses |-> <<[js |-> "null"]>>],
      [statuses |-> <<[status |-> "read"]>>],
      [statuses |-> [js |-> "number"], scalars |-> {"statuses"}],
      [statuses |-> [js |-> "string"], scalars |-> {"statuses"}] }

\* the parts a message can carry, and a message of every combination of them
Parts == {"text", "image", "document", "audio"}

MessageOf(parts) ==
    [f \in parts \cup {"id", "type"} |->
        CASE f = "id"   -> "wamid1"
          [] f = "type" -> "x"
          [] f = "text" -> [body |-> "ola"]
          [] OTHER      -> [body |-> "media"]]

ContentPayloads ==
    { [messages |-> <<MessageOf(parts)>>, contacts |-> <<Contact>>] :
        parts \in SUBSET Parts }

-----------------------------------------------------------------------------
(* WhatsAppService.processIncomingMessage / processStatusUpdate as steps on
   st = [messages, uuids, now, caught]: the message collection, the ids and
   the clock used up, and the error the handler's own catch block caught *)

Here == [messages |-> messages, uuids |-> uuids, now |-> now, caught |-> ""]

threw(st, error) == [st EXCEPT !.caught = error]

\* what the catch block lets out, as the catch block of a handler that
\* raises what it caught
rethrown(error) == error

\* what the catch block lets out: it logs and returns
swallowed(error) == ""

\* guests.find with the raw phone strings compared
guestByRawPhone(wa_id) ==
    LET hits == {i \in 1..Len(guests) : guests[i].v.phone = wa_id} IN
    IF hits = {} THEN None
    ELSE Some(guests[CHOOSE i \in hits : \A j \in hits : i <= j].v)

\* guests.find(g => normalizePhoneNumber(g.phone) === normalizedPhone)
guestByPhone(wa_id) ==
    LET normalizedPhone == normalizePhoneNumber(Chars(wa_id))
        hits == {i \in 1..Len(guests) :
                    normalizePhoneNumber(Chars(guests[i].v.phone)) = normalizedPhone} IN
    IF hits = {} THEN None
    ELSE Some(guests[CHOOSE i \in hits : \A j \in hits : i <= j].v)

\* the conditional chain with the image tested first
messageContentImageFirst(message) ==
    IF Has(message, "image") THEN "[Imagem]"
    ELSE IF Has(message, "text") THEN message.text.body
    ELSE IF Has(message, "document") THEN "[Documento]"
    ELSE IF Has(message, "audio") THEN "[Áudio]"
    ELSE "[Mensagem não suportada]"

messageContent(message) ==
    IF Has(message, "text") THEN message.text.body
    ELSE IF Has(message, "image") THEN "[Imagem]"
    ELSE IF Has(message, "document") THEN "[Documento]"
    ELSE IF Has(message, "audio") THEN "[Áudio]"
    ELSE "[Mensagem não suportada]"

\* the InsertMessage of an incoming message; whatsappMessageId is message.id,
\* left out when the message has none
insertMessage(message, contact, guest) ==
    Spread([content |-> messageContent(message), type |-> "general",
            channel |-> "whatsapp", direction |-> "incoming",
            fromNumber |-> contact.wa_id,
            toNumber |-> IF config /= None /\ config[1].phoneNumberId /= ""
                         THEN config[1].phoneNumberId ELSE "",
            whatsappStatus |-> "received",
            guestId |-> IF guest /= None /\ Truthy(guest[1].id) THEN guest[1].id ELSE NULL,
            bookingId |-> NULL, isRead |-> FALSE],
           IF Has(message, "id") THEN [whatsappMessageId |-> message.id] ELSE EmptyObj)

\* the handler storing a message without a sender when there is no contact
incomingAnonymous(st, messageData) ==
    IF IsNullish(messageData) THEN threw(st, "TypeError")
    ELSE IF Empty(messageData, "messages") THEN st
    ELSE LET message == First(messageData, "messages")
             contact == First(messageData, "contacts")
             id == randomUUID(st.uuids) IN
         IF IsNullish(message) THEN threw(st, "TypeError")
         ELSE IF IsNullish(contact)
         THEN [st EXCEPT !.messages =
                             MapSet(st.messages, id,
                                    newMessage(insertMessage(message, [wa_id |-> ""], None),
                                               id, st.now)),
                         !.uuids = st.uuids + 1,
                         !.now = st.now + 1]
         ELSE IF ~Has(contact, "wa_id") THEN threw(st, "TypeError")
         ELSE [st EXCEPT !.messages =
                             MapSet(st.messages, id,
                                    newMessage(insertMessage(message, contact,
                                                             guestByPhone(contact.wa_id)),
                                               id, st.now)),
                         !.uuids = st.uuids + 1,
                         !.now = st.now + 1]

incoming(st, messageData) ==
    IF IsNullish(messageData) THEN threw(st, "TypeError")
    ELSE IF Empty(messageData, "messages") THEN st
    ELSE LET message == First(messageData, "messages")
             contact == First(messageData, "contacts") IN
         IF IsNullish(contact) THEN st
         ELSE IF ~Has(contact, "wa_id") THEN threw(st, "TypeError")
         ELSE IF IsNullish(message) THEN threw(st, "TypeError")
         ELSE LET id == randomUUID(st.uuids)
                  rec == newMessage(insertMessage(message, contact,
                                                  guestByPhone(contact.wa_id)),
                                    id, st.now) IN
              [st EXCEPT !.messages = MapSet(st.messages, id, rec),
                         !.uuids = st.uuids + 1,
                         !.now = st.now + 1]

statusChanged(st, statusData) ==
    IF IsNullish(statusData) THEN threw(st, "TypeError")
    ELSE IF Empty(statusData, "statuses") THEN st
    ELSE LET status == First(statusData, "statuses") IN
         IF IsNullish(status) THEN threw(st, "TypeError")
         ELSE [st EXCEPT !.messages = statusUpdatedIn(st.messages, Field(status, "id"),
                                                      Field(status, "status"))]

\* a handler call ended: what it let out is what its catch block lets out
Handled(op, key, statusData, ret, st) ==
    [Call(op, "Gateway", key, <<statusData>>, ret, swallowed(st.caught) = "")
       EXCEPT !.err = swallowed(st.caught)]

processIncomingMessage(messageData) ==
    LET st == incoming(Here, messageData) IN
    /\ Budget
    /\ ops' = ops + 1
    /\ messages' = st.messages
    /\ uuids' = st.uuids
    /\ now' = st.now
    /\ last' = Handled("processIncomingMessage",
                       IF st.uuids = uuids THEN "" ELSE randomUUID(uuids),
                       messageData, None, st)
    /\ UNCHANGED <<properties, guests, bookings, maintenanceTasks, expenses,
                   config, inflight>>

processStatusUpdate(statusData) ==
    LET st == statusChanged(Here, statusData)
        status == First(statusData, "statuses")
        \* the handler got as far as storage.updateWhatsAppMessageStatus
        called == /\ ~IsNullish(statusData)
                  /\ ~Empty(statusData, "statuses")
                  /\ ~IsNullish(status) IN
    /\ Budget
    /\ ops' = ops + 1
    /\ messages' = st.messages
    /\ last' = Handled("processStatusUpdate",
                       IF called THEN Field(status, "id") ELSE "",
                       statusData,
                       IF called
                       THEN statusUpdateResult(Field(status, "id"), Field(status, "status"))
                       ELSE None,
                       st)
    /\ UNCHANGED <<properties, guests, bookings, maintenanceTasks, expenses,
                   uuids, now, config, inflight>>

-----------------------------------------------------------------------------
(* WhatsAppService.verifyWebhook and the webhook routes (routes.ts) *)

\* verifyWebhook that does not look at the mode
verifyWebhookAnyMode(mode, token, challenge) ==
    IF config = None THEN NULL
    ELSE IF token = config[1].verifyToken THEN challenge
    ELSE NULL

\* the value verifyWebhook(mode, token, challenge) returns
verifyWebhookResult(mode, token, challenge) ==
    IF config = None THEN NULL
    ELSE IF mode = "subscribe" /\ token = config[1].verifyToken THEN challenge
    ELSE NULL

Modes == {"subscribe", "unsubscribe"}

Tokens == {"vt", "other"}

Challenges == {"1158201444", ""}

verifyWebhook(mode, token, challenge) ==
    /\ Budget
    /\ ops' = ops + 1
    /\ last' = Call("verifyWebhook", "Gateway", "", <<mode, token, challenge>>,
                    Some(verifyWebhookResult(mode, token, challenge)), TRUE)
    /\ UNCHANGED <<store, uuids, now, config, inflight>>

Account == "whatsapp_business_account"

\* a change that carries an incoming message and a status for it
GoodChange ==
    [field |-> "messages",
     value |-> [messages |-> <<WellFormedMessage>>, contacts |-> <<Contact>>,
                statuses |-> <<[id |-> "wamid2", status |-> "read"]>>]]

WebhookBodies ==
    { [object |-> "page"],
      [object |-> Account],
      [object |-> Account, entry |-> <<>>],
      [object |-> Account, entry |-> <<[changes |-> <<GoodChange>>]>>],
      [object |-> Account, entry |-> <<[changes |-> <<[field |-> "account_update"]>>]>>],
      [object |-> Account, entry |-> <<[changes |-> <<[field |-> "messages"]>>]>>],
      [object |-> Account, entry |-> <<[changes |-> <<GoodChange>>], [id |-> "e2"]>>] }

\* the body of `for (const change of entry.changes)`: a handler's own catch
\* keeps what it caught to itself; a throw of the loop body itself goes to
\* the route's catch
onChange(st, change) ==
    IF Field(change, "field") /= "messages" THEN st
    ELSE IF ~Has(change, "value") \/ IsNullish(change.value)
         THEN [st EXCEPT !.error = "TypeError"]
    ELSE LET value == change.value
             s1 == IF Has(value, "messages")
                   THEN [incoming(st, value) EXCEPT !.caught = ""] ELSE st IN
         IF Has(value, "statuses")
         THEN [statusChanged(s1, value) EXCEPT !.caught = ""] ELSE s1

RECURSIVE forChanges(_, _)
forChanges(st, changes) ==
    IF changes = <<>> \/ st.error /= "" THEN st
    ELSE forChanges(onChange(st, Head(changes)), Tail(changes))

RECURSIVE forEntries(_, _)
forEntries(st, entries) ==
    IF entries = <<>> \/ st.error /= "" THEN st
    ELSE IF ~Has(Head(entries), "changes") THEN [st EXCEPT !.error = "TypeError"]
    ELSE forEntries(forChanges(st, Head(entries).changes), Tail(entries))

\* the try block of POST /api/whatsapp/webhook
webhookTry(st, body) ==
    IF Field(body, "object") /= Account THEN st
    ELSE IF ~Has(body, "entry") THEN [st EXCEPT !.error = "TypeError"]
    ELSE forEntries(st, body.entry)

\* POST /api/whatsapp/webhook, from the request to its response
postWebhook(body) ==
    LET st == webhookTry([messages |-> messages, uuids |-> uuids, now |-> now,
                          caught |-> "", error |-> ""], body) IN
    /\ Budget
    /\ ops' = ops + 1
    /\ messages' = st.messages
    /\ uuids' = st.uuids
    /\ now' = st.now
    /\ last' = Call("postWebhook", "Route", "", <<body>>,
                    Some(IF st.error = ""
                         THEN [status |-> 200, body |-> "EVENT_RECEIVED"]
                         ELSE [status |-> 500, body |-> "Failed to process webhook"]),
                    st.error = "")
    /\ UNCHANGED <<properties, guests, bookings, maintenanceTasks, expenses,
                   config, inflight>>

-----------------------------------------------------------------------------
(* POST /api/bookings (routes.ts) *)

\* the columns of insertBookingSchema the model carries, and those of them a
\* body must hold for parse() to accept it
BookingColumns == {"propertyId", "guestId", "checkIn", "checkOut", "status", "notes"}

RequiredBookingColumns == {"propertyId", "guestId", "checkIn", "checkOut"}

\* insertBookingSchema.parse(req.body) throws
parseThrows(body) == ~(RequiredBookingColumns \subseteq DOMAIN body)

\* what insertBookingSchema.parse(req.body) returns: the known columns only
parsed(body) == [f \in (DOMAIN body) \cap BookingColumns |-> body[f]]

NewGuestData == [email |-> "c@x", phone |-> "5521999990000"]

BookingBodies ==
    { Spread(Spread(Spread([propertyId |-> "u1", checkIn |-> 10, checkOut |-> 15],
                           guestId), email), guestData) :
        guestId \in { EmptyObj, [guestId |-> ""] },
        email \in { EmptyObj, [guestEmail |-> "a@x"], [guestEmail |-> "c@x"] },
        guestData \in { EmptyObj, [guestData |-> NewGuestData] } }

\* the route from the request to its response; the awaits in it are calls on
\* MemStorage, which complete without yielding to another request
postBooking(body) ==
    LET found    == getGuestByEmail(Field(body, "guestEmail"))
        creates  == found = None /\ Has(body, "guestData")
        guestKey == randomUUID(uuids)
        guest    == IF creates THEN Some(newGuest(body.guestData, guestKey, now))
                    ELSE found
        used     == IF creates THEN 1 ELSE 0
        id       == randomUUID(uuids + used)
        rec      == newBooking(Spread(parsed(body), [guestId |-> guest[1].id]),
                               id, now + used) IN
    /\ Budget
    /\ ops' = ops + 1
    /\ IF parseThrows(body)
       THEN /\ last' = Call("postBooking", "Route", "", <<body>>,
                            Some([status |-> 400, message |-> "Invalid booking data"]),
                            FALSE)
            /\ UNCHANGED <<guests, bookings, uuids, now>>
       ELSE IF guest = None
       THEN /\ last' = Call("postBooking", "Route", "", <<body>>,
                            Some([status |-> 400, message |-> "Guest information required"]),
                            FALSE)
            /\ UNCHANGED <<guests, bookings, uuids, now>>
       ELSE /\ guests' = IF creates THEN MapSet(guests, guestKey, guest[1]) ELSE guests
            /\ bookings' = MapSet(bookings, id, rec)
            /\ uuids' = uuids + used + 1
            /\ now' = now + used + 1
            /\ last' = Call("postBooking", "Route", id, <<body>>,
                            Some([status |-> 201, booking |-> rec]), TRUE)
    /\ UNCHANGED <<properties, maintenanceTasks, expenses, messages, config, inflight>>

-----------------------------------------------------------------------------
(* POST /api/whatsapp/config (routes.ts) *)

\* request bodies: two complete configurations and ones with a field
\* missing or empty
ConfigBodies ==
    { [accessToken |-> "tok", phoneNumberId |-> "pn1", verifyToken |-> "vt"],
      [accessToken |-> "tok2", phoneNumberId |-> "pn3", verifyToken |-> "vt2",
       webhookUrl |-> "https://h/w"],
      [phoneNumberId |-> "pn1", verifyToken |-> "vt"],
      [accessToken |-> "", phoneNumberId |-> "pn1", verifyToken |-> "vt"],
      [accessToken |-> "tok", phoneNumberId |-> "", verifyToken |-> "vt"],
      [accessToken |-> "tok", verifyToken |-> "vt", webhookUrl |-> "https://h/w"],
      [accessToken |-> "tok", phoneNumberId |-> "pn1"],
      [accessToken |-> "tok", phoneNumberId |-> "pn1", verifyToken |-> ""],
      EmptyObj }

\* !body[f]
Missing(body, f) == ~(Has(body, f) /\ Truthy(body[f]))

\* the test that lets a request without a verification token through
configRejectedTokenOptional(body) ==
    Missing(body, "accessToken") \/ Missing(body, "phoneNumberId")

\* !accessToken || !phoneNumberId || !verifyToken
configRejected(body) ==
    \/ Missing(body, "accessToken")
    \/ Missing(body, "phoneNumberId")
    \/ Missing(body, "verifyToken")

\* { accessToken, phoneNumberId, verifyToken, webhookUrl }
configOf(body) ==
    [f \in (DOMAIN body) \cap {"accessToken", "phoneNumberId", "verifyToken",
                                "webhookUrl"} |-> body[f]]

postConfig(body) ==
    /\ Budget
    /\ ops' = ops + 1
    /\ IF configRejected(body)
       THEN /\ last' = Call("postConfig", "Route", "", <<body>>,
                            Some([status |-> 400,
                                  message |-> "Missing required WhatsApp configuration"]),
                            FALSE)
            /\ UNCHANGED config
       ELSE /\ config' = Some(configOf(body))
            /\ last' = Call("postConfig", "Route", "", <<body>>,
                            Some([status |-> 200,
                                  message |-> "WhatsApp configured successfully"]),
                            TRUE)
    /\ UNCHANGED <<store, uuids, now, inflight>>

-----------------------------------------------------------------------------

Init ==
    /\ properties = <<[k |-> randomUUID(0), v |-> defaultProperty(randomUUID(0), 0)]>>
    /\ guests = <<>>
    /\ bookings = <<>>
    /\ maintenanceTasks = <<>>
    /\ expenses = <<>>
    /\ messages = <<>>
    /\ uuids = 1
    /\ now = 1
    /\ config = <<>>
    /\ inflight = <<>>
    /\ last = Call("constructor", "Property", randomUUID(0), <<>>, None, TRUE)
    /\ ops = 0

StoreNext ==
    \/ \E x \in PropertyInputs : createProperty(x)
    \/ \E u \in PropertyUpdates : updateProperty(u[1], u[2])
    \/ \E id \in Refs(properties) : deleteProperty(id)
    \/ \E x \in GuestInputs : createGuest(x)
    \/ \E u \in GuestUpdates : updateGuest(u[1], u[2])
    \/ \E id \in Refs(guests) : deleteGuest(id)
    \/ \E x \in BookingInputs : createBooking(x)
    \/ \E u \in BookingUpdates : updateBooking(u[1], u[2])
    \/ \E id \in Refs(bookings) : deleteBooking(id)
    \/ \E x \in TaskInputs : createMaintenanceTask(x)
    \/ \E u \in TaskUpdates : updateMaintenanceTask(u[1], u[2])
    \/ \E id \in Refs(maintenanceTasks) : deleteMaintenanceTask(id)
    \/ \E x \in ExpenseInputs : createExpense(x)
    \/ \E u \in ExpenseUpdates : updateExpense(u[1], u[2])
    \/ \E id \in Refs(expenses) : deleteExpense(id)
    \/ \E x \in MessageInputs : createMessage(x)
    \/ \E u \in MessageUpdates : updateMessage(u[1], u[2])
    \/ \E id \in Refs(messages) : deleteMessage(id)

MessageNext ==
    \/ \E x \in MessageInputs : createMessage(x)
    \/ \E u \in MessageUpdates : updateMessage(u[1], u[2])
    \/ \E id \in Refs(messages) : deleteMessage(id)

GatewayNext ==
    \/ \E c \in Configs : setConfig(c)
    \/ \E a \in SendArgs : sendTextMessage(a)
    \/ \E a \in TemplateArgs : sendTemplateMessage(a)
    \/ \E i \in 1..Len(inflight) : \E r \in Responses : axiosPost(i, r)
    \/ \E p \in StatusPayloads : processStatusUpdate(p)

\* the outbound half of the gateway on its own
SendNext ==
    \/ \E c \in Configs \cup EmptySenderConfigs : setConfig(c)
    \/ \E a \in SendArgs \cup SendArgsWithRefs : sendTextMessage(a)
    \/ \E a \in TemplateArgsWithRefs : sendTemplateMessage(a)
    \/ \E i \in 1..Len(inflight) : \E r \in SendResponses : axiosPost(i, r)

Next == StoreNext \/ GatewayNext

Spec == Init /\ [][Next]_vars

SpecStore == Init /\ [][StoreNext]_vars

SpecGateway == Init /\ [][GatewayNext \/ MessageNext]_vars

SpecSend == Init /\ [][SendNext]_vars

\* the gateway on its own: sends, their answers and status updates
SpecStatusRace == Init /\ [][GatewayNext]_vars

\* the message collection on its own
SpecMessages == Init /\ [][MessageNext]_vars

\* the status payloads the inbound half is run against: none, and "read"
\* for each external id
ReadReceipts ==
    { p \in StatusPayloads :
        Has(p, "statuses") => (Len(p.statuses) = 1 /\ p.statuses[1].status = "read") }

\* the inbound half of the gateway, with the guests it matches against
WebhookNext ==
    \/ \E c \in Configs : setConfig(c)
    \/ \E x \in GuestInputs : createGuest(x)
    \/ \E p \in IncomingPayloads : processIncomingMessage(p)
    \/ \E p \in MalformedIncoming : processIncomingMessage(p)
    \/ \E p \in ReadReceipts : processStatusUpdate(p)
    \/ \E p \in MalformedStatusPayloads : processStatusUpdate(p)
    \/ \E mode \in Modes, token \in Tokens, challenge \in Challenges :
          verifyWebhook(mode, token, challenge)
    \/ \E body \in WebhookBodies : postWebhook(body)

SpecWebhook == Init /\ [][WebhookNext]_vars

\* booking creation through its route, with guests created and deleted
\* directly
BookingRouteNext ==
    \/ \E x \in GuestInputs : createGuest(x)
    \/ \E id \in Refs(guests) : deleteGuest(id)
    \/ \E body \in BookingBodies : postBooking(body)

SpecBookingRoute == Init /\ [][BookingRouteNext]_vars

\* incoming messages of every kind
ContentNext == \E p \in ContentPayloads : processIncomingMessage(p)

SpecContent == Init /\ [][ContentNext]_vars

\* the configuration route and the send calls it configures
ConfigNext ==
    \/ \E body \in ConfigBodies : postConfig(body)
    \/ \E a \in SendArgs : sendTextMessage(a)
    \/ \E a \in TemplateArgs : sendTemplateMessage(a)
    \/ \E i \in 1..Len(inflight) : \E r \in SendResponses : axiosPost(i, r)

SpecConfig == Init /\ [][ConfigNext]_vars

\* update calls of several callers on the same records, in any order
UpdateNext ==
    \/ \E x \in BookingInputs : createBooking(x)
    \/ \E id \in Keys(bookings) : \E x \in RacingBookingPartials : updateBooking(id, x)
    \/ \E id \in Keys(properties) : \E x \in RacingPropertyPartials : updateProperty(id, x)

SpecUpdates == Init /\ [][UpdateNext]_vars

PhoneNext == \E phone \in Phones : normalize(phone)

SpecPhone == Init /\ [][PhoneNext]_vars

\* normalizePhoneNumber with the guests and contacts it is used to match
PhoneMatchNext ==
    \/ \E a \in PhonePrefixes, b \in PhoneBodies : normalize(a \o b)
    \/ \E x \in GuestInputs : createGuest(x)
    \/ \E p \in IncomingPayloads : processIncomingMessage(p)

SpecPhoneMatch == Init /\ [][PhoneMatchNext]_vars

-----------------------------------------------------------------------------
(* Vocabulary of the properties *)

\* every id a call can name
AllIds == Range(UuidPool) \cup {Ghost}

Kinds == {"Property", "Guest", "Booking", "MaintenanceTask", "Expense", "Message"}

Coll(kind) ==
    CASE kind = "Property"        -> properties
      [] kind = "Guest"           -> guests
      [] kind = "Booking"         -> bookings
      [] kind = "MaintenanceTask" -> maintenanceTasks
      [] kind = "Expense"         -> expenses
      [] kind = "Message"         -> messages

\* the creation stamp of a kind
Stamp(kind) == IF kind = "Message" THEN "sentAt" ELSE "createdAt"

\* get(id) of a kind, as the caller sees it
Get(kind, id) ==
    CASE kind = "Booking" -> getBooking(id)
      [] kind = "Message" -> getMessage(id)
      [] OTHER            -> MapGet(Coll(kind), id)

\* the defaults the data model documents, per kind: field -> accepted values
\* (a booking's status defaults to "pending" or "confirmed" by call site)
Documented(kind) ==
    CASE kind = "Property" -> [description |-> {NULL}, maxGuests |-> {1}]
      [] kind = "Guest"    -> [document |-> {NULL}, notes |-> {NULL}]
      [] kind = "Booking"  -> [status |-> {"pending", "confirmed"}, notes |-> {NULL}]
      [] kind = "MaintenanceTask" ->
            [status |-> {"pending"}, description |-> {NULL}, notes |-> {NULL},
             assignedTo |-> {NULL}, cost |-> {NULL}]
      [] kind = "Expense"  -> [receipt |-> {NULL}]
      [] kind = "Message"  ->
            [guestId |-> {NULL}, bookingId |-> {NULL}, subject |-> {NULL},
             type |-> {"general"}, channel |-> {"internal"},
             direction |-> {"outgoing"}, whatsappMessageId |-> {NULL},
             whatsappStatus |-> {NULL}, fromNumber |-> {NULL}, toNumber |-> {NULL},
             isRead |-> {FALSE}]

\* rec carries every field of input with input's value, and every documented
\* default for the fields input leaves out
InputPlusDefaults(kind, input, rec) ==
    /\ \A f \in DOMAIN input : Has(rec, f) /\ rec[f] = input[f]
    /\ \A f \in (DOMAIN Documented(kind)) \ (DOMAIN input) :
          Has(rec, f) /\ rec[f] \in Documented(kind)[f]

\* the id of the record just created is non-empty and no other stored record
\* of the kind has it, as key or as field
FreshId(kind, id) ==
    /\ id /= ""
    /\ Cardinality({i \in 1..Len(Coll(kind)) : Coll(kind)[i].k = id}) = 1
    /\ \A i \in 1..Len(Coll(kind)) :
          Coll(kind)[i].k /= id => Coll(kind)[i].v.id /= id

JustCreated == last.op = "create"

\* the booking just created names a stored guest and a stored property
Resolves(booking) ==
    MapHas(guests, booking.guestId) /\ MapHas(properties, booking.propertyId)

-----------------------------------------------------------------------------
(* C1 *)

\* C1 as stated: after create(input), for every kind, get(id) finds a record
\* that is the input plus the documented defaults, under a fresh non-empty id.
C1_GetAfterCreateAlwaysFound ==
    JustCreated =>
        /\ Get(last.kind, last.key) /= None
        /\ InputPlusDefaults(last.kind, last.arg[1], Get(last.kind, last.key)[1])
        /\ Get(last.kind, last.key)[1].id = last.key
        /\ FreshId(last.kind, last.key)

\* C1, amended: after create(input), get(id) finds the input plus the
\* documented defaults under a fresh non-empty id for every kind, except that
\* for a booking get(id) finds it only when the booking's guestId and
\* propertyId both name stored records; otherwise get(id) answers not-found
\* although the booking is stored as the input plus the defaults.
C1_GetAfterCreate ==
    JustCreated =>
        LET stored == MapGet(Coll(last.kind), last.key)
            got    == Get(last.kind, last.key) IN
        /\ stored /= None
        /\ InputPlusDefaults(last.kind, last.arg[1], stored[1])
        /\ stored[1].id = last.key
        /\ last.ret = stored
        /\ FreshId(last.kind, last.key)
        /\ IF last.kind = "Booking" /\ ~Resolves(stored[1])
           THEN got = None
           ELSE /\ got /= None
                /\ InputPlusDefaults(last.kind, last.arg[1], got[1])
                /\ got[1].id = last.key

\* a booking was just created with defaults filled in and get(id) finds it
C1_Witness ==
    /\ JustCreated
    /\ last.kind = "Booking"
    /\ ~Has(last.arg[1], "status")
    /\ getBooking(last.key) /= None

-----------------------------------------------------------------------------
(* C2 *)

JustUpdated == last.op = "update"

\* C2: no update(id, partial) changes the id or the creation stamp of a stored
\* record, whatever keys partial carries, and the record stays under the key
\* equal to its id field.
C2_UpdateKeepsIdAndStamp ==
    [][ JustUpdated' =>
          \A kind \in Kinds : \A i \in 1..Len(Coll(kind)) :
             LET key == Coll(kind)[i].k
                 old == Coll(kind)[i].v
                 new == MapGet(Coll(kind)', key) IN
             new /= None =>
                /\ new[1].id = old.id
                /\ new[1][Stamp(kind)] = old[Stamp(kind)]
                /\ new[1].id = key ]_vars

-----------------------------------------------------------------------------
(* C3 *)

\* C3: update(id, partial) on a stored id returns and stores the record with
\* every field of partial at the supplied value and every other field as it
\* was (so an empty partial returns the record unchanged), and touches
\* nothing else; on an id that is not stored it returns not-found and leaves
\* every collection unchanged.
C3_UpdateMerges ==
    [][ \A kind \in Kinds : \A id \in AllIds :
          JustUpdated' /\ last'.kind = kind /\ last'.key = id =>
          LET partial == last'.arg[1]
              before  == MapGet(Coll(kind), id)
              after   == MapGet(Coll(kind)', id) IN
          IF before = None
          THEN /\ last'.ret = None
               /\ ~last'.ok
               /\ store' = store
          ELSE /\ last'.ok
               /\ last'.ret /= None
               /\ after = last'.ret
               /\ DOMAIN after[1] = (DOMAIN before[1]) \cup (DOMAIN partial)
               /\ \A f \in DOMAIN partial : after[1][f] = partial[f]
               /\ \A f \in (DOMAIN before[1]) \ (DOMAIN partial) :
                     after[1][f] = before[1][f]
               /\ partial = EmptyObj => after = before
               /\ Keys(Coll(kind)') = Keys(Coll(kind))
               /\ \A key \in Keys(Coll(kind)) \ {id} :
                     MapGet(Coll(kind)', key) = MapGet(Coll(kind), key)
               /\ \A other \in Kinds \ {kind} : Coll(other)' = Coll(other) ]_vars

\* a stored booking was just updated with a partial that names some fields
\* and leaves others out
C3_Witness ==
    /\ JustUpdated
    /\ last.kind = "Booking"
    /\ last.ok
    /\ Has(last.arg[1], "status")
    /\ last.ret[1].status = "cancelled"
    /\ last.ret[1].checkIn = 10

-----------------------------------------------------------------------------
(* C4 *)

JustDeleted == last.op = "delete"

\* C4: delete(id) on a stored id returns true and get(id) then answers
\* not-found; on an id that is not stored it returns false, raises nothing
\* and leaves every collection unchanged.
C4_DeleteThenGet ==
    [][ \A kind \in Kinds : \A id \in AllIds :
          JustDeleted' /\ last'.kind = kind /\ last'.key = id =>
          /\ last'.err = ""
          /\ IF MapHas(Coll(kind), id)
             THEN /\ last'.ok
                  /\ Get(kind, id)' = None
                  /\ ~MapHas(Coll(kind)', id)
             ELSE /\ ~last'.ok
                  /\ store' = store ]_vars

\* a stored message was just deleted
C4_Witness ==
    /\ JustDeleted
    /\ last.kind = "Message"
    /\ last.ok
    /\ ~MapHas(messages, last.key)

-----------------------------------------------------------------------------
(* C5 *)

\* the dependents of properties and guests
Dependents == <<bookings, maintenanceTasks, expenses, messages>>

\* every stored booking whose guest is not stored is still found by
\* updateBooking and deleteBooking under its own id
OrphansWritable ==
    \A i \in 1..Len(bookings) :
        LET key == bookings[i].k
            change == [status |-> "cancelled"] IN
        ~MapHas(guests, bookings[i].v.guestId) =>
            /\ updateResult(bookings, key, change) /= None
            /\ MapGet(updated(bookings, key, change), key)
                  = Some(Spread(bookings[i].v, change))
            /\ ~MapHas(MapDelete(bookings, key), key)

\* C5: deleting a property or a guest removes that one record and nothing
\* else: every booking, task, expense and message is stored as before, also
\* those naming the deleted id, and a booking whose guest is gone can still
\* be updated and deleted by its own id.
C5_NoCascade ==
    [][ \A kind \in {"Property", "Guest"} : \A id \in AllIds :
          JustDeleted' /\ last'.kind = kind /\ last'.key = id =>
          /\ Dependents' = Dependents
          /\ \A other \in {"Property", "Guest"} \ {kind} : Coll(other)' = Coll(other)
          /\ Keys(Coll(kind)') = Keys(Coll(kind)) \ {id}
          /\ \A key \in Keys(Coll(kind)') :
                MapGet(Coll(kind)', key) = MapGet(Coll(kind), key)
          /\ OrphansWritable' ]_vars

\* a guest that a stored booking names was just deleted, and the booking is
\* still there
C5_Witness ==
    /\ JustDeleted
    /\ last.kind = "Guest"
    /\ last.ok
    /\ \E i \in 1..Len(bookings) : bookings[i].v.guestId = last.key

-----------------------------------------------------------------------------
(* C6 *)

AllResolved(list) ==
    \A i \in 1..Len(list) : list[i].guest /= None /\ list[i].property /= None

\* C6: every booking list operation returns only bookings whose guest and
\* property are both stored, each element embedding both.
C6_ListsOnlyResolved ==
    /\ AllResolved(getBookings)
    /\ \A id \in AllIds : AllResolved(getBookingsByProperty(id))
    /\ \A id \in AllIds : AllResolved(getBookingsByGuest(id))
    /\ AllResolved(getBookingsByDateRange(10, 25))

-----------------------------------------------------------------------------
(* C7 *)

DateRanges == { <<12, 20>>, <<15, 20>>, <<20, 25>>, <<5, 10>>, <<16, 19>>, <<1, 9>> }

Returned(booking, range) ==
    bookingWithGuest(booking) \in Range(getBookingsByDateRange(range[1], range[2]))

\* C7: getBookingsByDateRange(start, end) returns a resolvable booking exactly
\* when checkIn <= end and checkOut >= start, both bounds inclusive; a booking
\* 10..15 is returned for 12..20 and for 15..20 and not for 20..25.
C7_DateRangeOverlap ==
    \A i \in 1..Len(bookings) :
        LET booking == bookings[i].v IN
        Resolves(booking) =>
            /\ \A range \in DateRanges :
                  Returned(booking, range)
                     <=> (booking.checkIn <= range[2] /\ booking.checkOut >= range[1])
            /\ (booking.checkIn = 10 /\ booking.checkOut = 15) =>
                  /\ Returned(booking, <<12, 20>>)
                  /\ Returned(booking, <<15, 20>>)
                  /\ Returned(booking, <<5, 10>>)
                  /\ ~Returned(booking, <<20, 25>>)
                  /\ ~Returned(booking, <<1, 9>>)

\* a resolvable booking 10..15 is stored: 12..20 returns it, 20..25 does not
C7_Witness ==
    \E i \in 1..Len(bookings) :
        /\ Resolves(bookings[i].v)
        /\ bookings[i].v.checkIn = 10
        /\ bookings[i].v.checkOut = 15
        /\ Returned(bookings[i].v, <<12, 20>>)
        /\ ~Returned(bookings[i].v, <<20, 25>>)

-----------------------------------------------------------------------------
(* C8 *)

\* every stored message is the i-th element of getMessages() and is what
\* getMessage answers for the key it is stored under
NoMessageDropped ==
    /\ Len(getMessages) = Len(messages)
    /\ \A i \in 1..Len(messages) :
          /\ \A f \in DOMAIN messages[i].v : getMessages[i][f] = messages[i].v[f]
          /\ getMessage(messages[i].k) = Some(getMessages[i])

\* C8 as stated: no message is dropped, the embedded guest is there exactly
\* when guestId names a stored guest and the embedded booking exactly when
\* bookingId names a stored booking.
C8_RelationsWhenStored ==
    /\ NoMessageDropped
    /\ \A i \in 1..Len(messages) :
          /\ getMessages[i].guest /= None <=> MapHas(guests, messages[i].v.guestId)
          /\ getMessages[i].booking /= None <=> MapHas(bookings, messages[i].v.bookingId)

\* C8, amended: no message is dropped; the embedded guest is there exactly
\* when guestId names a stored guest; the embedded booking is there exactly
\* when bookingId names a stored booking whose own guest and property are
\* both stored.
C8_RelationsWhenResolved ==
    /\ NoMessageDropped
    /\ \A i \in 1..Len(messages) :
          LET message == messages[i].v IN
          /\ getMessages[i].guest /= None <=> MapHas(guests, message.guestId)
          /\ getMessages[i].guest /= None =>
                getMessages[i].guest = MapGet(guests, message.guestId)
          /\ getMessages[i].booking /= None <=>
                /\ MapHas(bookings, message.bookingId)
                /\ Resolves(MapGet(bookings, message.bookingId)[1])
          /\ getMessages[i].booking /= None =>
                \A f \in DOMAIN MapGet(bookings, message.bookingId)[1] :
                   getMessages[i].booking[1][f] = MapGet(bookings, message.bookingId)[1][f]

\* a stored message names a stored guest and a stored booking, the guest is
\* embedded and the booking is not because its own guest is not stored
C8_Witness ==
    \E i \in 1..Len(messages) :
        /\ MapHas(guests, messages[i].v.guestId)
        /\ MapHas(bookings, messages[i].v.bookingId)
        /\ getMessages[i].guest /= None
        /\ getMessages[i].booking = None

-----------------------------------------------------------------------------
(* C9 *)

JustStatusUpdate == last.op = "processStatusUpdate"

\* the position of the first stored message with the given external id, 0 if none
FirstWith(whatsappMessageId) ==
    LET hits == {i \in 1..Len(messages) :
                    messages[i].v.whatsappMessageId = whatsappMessageId} IN
    IF hits = {} THEN 0 ELSE CHOOSE i \in hits : \A j \in hits : i <= j

\* C9: a status update (externalId, status) changes the whatsappStatus of the
\* first stored message with that whatsappMessageId and nothing else; with no
\* such message it returns not-found, raises nothing and changes nothing.
C9_StatusUpdateFrame ==
    [][ \A w \in WamIds : \A st \in StatusValues :
          ( /\ JustStatusUpdate'
            /\ Has(last'.arg[1], "statuses")
            /\ Len(last'.arg[1].statuses) > 0
            /\ last'.arg[1].statuses[1] = [id |-> w, status |-> st] ) =>
          /\ last'.err = ""
          /\ UNCHANGED <<properties, guests, bookings, maintenanceTasks, expenses>>
          /\ IF FirstWith(w) = 0
             THEN /\ last'.ret = None
                  /\ messages' = messages
             ELSE /\ messages' =
                        [messages EXCEPT
                           ![FirstWith(w)].v = Spread(@, [whatsappStatus |-> st])]
                  /\ last'.ret = Some(messages'[FirstWith(w)].v) ]_vars

-----------------------------------------------------------------------------
(* C10 *)

Outgoing(message) == message.channel = "whatsapp" /\ message.direction = "outgoing"

Lifecycle == {"sent", "delivered", "read", "failed"}

\* C10: the whatsappStatus of an outbound WhatsApp message starts at sent,
\* stays within {sent, delivered, read, failed}, is never moved backwards and
\* never leaves read or failed.
C10_StatusLifecycle ==
    [][ \A key \in Keys(messages') :
          LET new == MapGet(messages', key)[1]
              old == MapGet(messages, key)[1] IN
          (Outgoing(new) /\ new.id = key) =>
             /\ new.whatsappStatus \in Lifecycle
             /\ ~MapHas(messages, key) => new.whatsappStatus = "sent"
             /\ ( /\ MapHas(messages, key)
                  /\ old.id = key
                  /\ old.whatsappMessageId = new.whatsappMessageId ) =>
                   /\ old.whatsappStatus \in {"read", "failed"} =>
                         new.whatsappStatus = old.whatsappStatus
                   /\ old.whatsappStatus = "delivered" =>
                         new.whatsappStatus /= "sent" ]_vars

-----------------------------------------------------------------------------
(* Vocabulary of the gateway properties *)

SendOps == {"sendTextMessage", "sendTemplateMessage"}

\* this step is a call of a send method, up to its request or its refusal
SendCalled == last'.op \in SendOps /\ ops' = ops + 1

\* this step is the provider's answer to a suspended send call and the rest
\* of that call; last'.arg is then <<the call's arguments, the answer>>
Answered == Len(inflight') < Len(inflight)

\* no configuration is set, or its access token or its sender id is empty
Unconfigured ==
    \/ config = None
    \/ config[1].accessToken = ""
    \/ config[1].phoneNumberId = ""

\* the label a template is recorded under
TemplateLabels == [welcome |-> "Template: welcome", checkin |-> "Template: checkin"]

\* a || null on an optional argument
GivenOrNull(args, f) == IF Has(args, f) /\ args[f] /= "" THEN args[f] ELSE NULL

-----------------------------------------------------------------------------
(* C11 *)

\* C11: a send call made while no configuration is set, or while the access
\* token or the sender id is empty, ends in the configuration error, issues
\* no request and leaves the store unchanged.
C11_UnconfiguredSendFails ==
    [][ (SendCalled /\ Unconfigured) =>
          /\ ~last'.ok
          /\ last'.err = "WhatsApp service not configured"
          /\ inflight' = inflight
          /\ store' = store ]_vars

\* a send was refused although a configuration is set: its token is empty
C11_Witness ==
    /\ last.op \in SendOps
    /\ last.err = "WhatsApp service not configured"
    /\ config /= None
    /\ config[1].accessToken = ""
    /\ inflight = <<>>

-----------------------------------------------------------------------------
(* C12 *)

\* C12: when the provider rejects or fails a send, no message is added and
\* the call ends in an error whose message is the provider's error message
\* when the answer carries one, and the transport error's message otherwise.
C12_ProviderFailure ==
    [][ (Answered /\ last'.arg[2].status /= 200) =>
          LET response == last'.arg[2] IN
          /\ store' = store
          /\ ~last'.ok
          /\ last'.ret = None
          /\ last'.err = IF Has(response, "error") THEN response.error
                         ELSE response.message ]_vars

\* a send was rejected with a provider error message and ended in it
C12_Witness ==
    /\ last.op \in SendOps
    /\ Len(last.arg) = 2
    /\ last.arg[2].status = 401
    /\ last.err = "Invalid OAuth access token"
    /\ messages = <<>>

-----------------------------------------------------------------------------
(* C13 *)

\* C13: when the provider accepts a send, the call reports the send to its
\* caller and not an error, also when recording the message fails (the
\* answer carries no message id), and the call makes no second request.
C13_AcceptedSendReported ==
    [][ (Answered /\ last'.arg[2].status = 200) =>
          /\ last'.ok
          /\ last'.err = ""
          /\ last'.ret = Some(last'.arg[2])
          /\ Len(inflight') = Len(inflight) - 1 ]_vars

-----------------------------------------------------------------------------
(* C14 *)

\* C14: a successful send adds exactly one message, at the end of the
\* collection: channel whatsapp, direction outgoing, content the body (for a
\* template the label "Template: <templateName>"), whatsappMessageId the id
\* the provider returned, whatsappStatus sent, toNumber the recipient,
\* fromNumber the configured sender id, guestId and bookingId as given or
\* null; the call returns the provider's response.
C14_SendPersists ==
    [][ ( /\ Answered
          /\ last'.arg[2].status = 200
          /\ Len(last'.arg[2].messages) > 0 ) =>
          LET args     == last'.arg[1]
              response == last'.arg[2]
              rec      == messages'[Len(messages')].v IN
          /\ Len(messages') = Len(messages) + 1
          /\ SubSeq(messages', 1, Len(messages)) = messages
          /\ messages'[Len(messages')].k = rec.id
          /\ rec.id \notin Keys(messages)
          /\ rec.channel = "whatsapp"
          /\ rec.direction = "outgoing"
          /\ rec.content = IF last'.op = "sendTextMessage" THEN args.message
                           ELSE TemplateLabels[args.templateName]
          /\ rec.whatsappMessageId = response.messages[1].id
          /\ rec.whatsappStatus = "sent"
          /\ rec.toNumber = args.to
          /\ rec.fromNumber = config[1].phoneNumberId
          /\ rec.guestId = GivenOrNull(args, "guestId")
          /\ rec.bookingId = GivenOrNull(args, "bookingId")
          /\ last'.ok
          /\ last'.ret = Some(response)
          /\ UNCHANGED <<properties, guests, bookings, maintenanceTasks, expenses>> ]_vars

\* a template send succeeded and its message is stored under its label
C14_Witness ==
    /\ last.op = "sendTemplateMessage"
    /\ last.ok
    /\ Len(last.arg) = 2
    /\ Len(messages) > 0
    /\ messages[Len(messages)].v.content = "Template: checkin"
    /\ messages[Len(messages)].v.guestId = "u2"

-----------------------------------------------------------------------------
(* C17 *)

JustNormalized == last.op = "normalizePhoneNumber"

\* C17: normalizePhoneNumber strips every non-digit; then 11 digits starting
\* with "11" get "55" in front, exactly 10 digits get "5511" in front, 13
\* digits starting with "55" and every other digit string come back as the
\* stripped digits. "11987654321" gives "5511987654321" and "987654321"
\* gives "987654321".
C17_Normalize ==
    JustNormalized =>
        LET phone  == last.arg[1]
            result == last.ret[1]
            digits == SelectSeq(phone, LAMBDA ch : ch \in Digit)
            nine   == <<"9", "8", "7", "6", "5", "4", "3", "2", "1">> IN
        /\ \A i \in 1..Len(result) : result[i] \in Digit
        /\ (Len(digits) = 11 /\ digits[1] = "1" /\ digits[2] = "1")
              => result = <<"5", "5">> \o digits
        /\ Len(digits) = 10 => result = <<"5", "5", "1", "1">> \o digits
        /\ ( /\ Len(digits) /= 10
             /\ ~(Len(digits) = 11 /\ digits[1] = "1" /\ digits[2] = "1") )
              => result = digits
        /\ phone = <<"1", "1">> \o nine => result = <<"5", "5", "1", "1">> \o nine
        /\ phone = nine => result = nine

\* a formatted 11-digit number of area 11 was normalized to its 13 digits
C17_Witness ==
    /\ JustNormalized
    /\ last.arg[1] = <<"(", "1", "1", ")", " ", "9", "8", "7", "6", "5", "-", "4", "3", "2", "1">>
    /\ last.ret[1] = <<"5", "5", "1", "1", "9", "8", "7", "6", "5", "4", "3", "2", "1">>

-----------------------------------------------------------------------------
(* C15 *)

\* C15: verifyWebhook(mode, token, challenge) returns the challenge as it is
\* exactly when a configuration is set, mode is "subscribe" and token is the
\* configured verification token; otherwise it returns null; it changes no
\* state.
C15_VerifyWebhook ==
    [][ (last'.op = "verifyWebhook" /\ ops' = ops + 1) =>
          LET mode      == last'.arg[1]
              token     == last'.arg[2]
              challenge == last'.arg[3]
              verified  == /\ config /= None
                           /\ mode = "subscribe"
                           /\ token = config[1].verifyToken IN
          /\ verified => last'.ret = Some(challenge)
          /\ ~verified => last'.ret = Some(NULL)
          /\ store' = store
          /\ config' = config
          /\ inflight' = inflight ]_vars

\* a subscription was verified and answered with its challenge
C15_Witness ==
    /\ last.op = "verifyWebhook"
    /\ config /= None
    /\ last.arg = <<"subscribe", "vt", "1158201444">>
    /\ last.ret = Some("1158201444")

-----------------------------------------------------------------------------
(* C16 *)

JustIncoming == last.op = "processIncomingMessage"

\* the payload has a first message and a first contact with an id
HasMessageAndContact(p) ==
    /\ ~Has(p, "js")
    /\ ~Has(p, "scalars")
    /\ Has(p, "messages")
    /\ Len(p.messages) > 0
    /\ ~Has(p.messages[1], "js")
    /\ Has(p, "contacts")
    /\ Len(p.contacts) > 0
    /\ Has(p.contacts[1], "wa_id")

\* the payload has no messages
HasNoMessages(p) ==
    /\ ~Has(p, "js")
    /\ ~Has(p, "scalars")
    /\ Has(p, "messages") => Len(p.messages) = 0

\* the id of the first stored guest whose normalized phone is the normalized
\* contact id, null when there is none
MatchedGuestId(wa_id) ==
    LET hits == {i \in 1..Len(guests) :
                    normalizePhoneNumber(Chars(guests[i].v.phone))
                       = normalizePhoneNumber(Chars(wa_id))} IN
    IF hits = {} THEN NULL
    ELSE guests[CHOOSE i \in hits : \A j \in hits : i <= j].v.id

\* C16: processIncomingMessage on a payload with a message and a contact
\* stores one incoming WhatsApp message: fromNumber the raw contact id,
\* toNumber the configured sender id (empty without a configuration),
\* whatsappStatus received, bookingId null, guestId the id of the first
\* stored guest with the same normalized phone or null; on a payload without
\* messages it changes nothing.
C16_IncomingPersisted ==
    [][ (JustIncoming' /\ ops' = ops + 1) =>
          LET p == last'.arg[1] IN
          /\ HasMessageAndContact(p) =>
                LET rec == messages'[Len(messages')].v IN
                /\ Len(messages') = Len(messages) + 1
                /\ SubSeq(messages', 1, Len(messages)) = messages
                /\ messages'[Len(messages')].k = rec.id
                /\ rec.direction = "incoming"
                /\ rec.channel = "whatsapp"
                /\ rec.fromNumber = p.contacts[1].wa_id
                /\ rec.toNumber = IF config = None THEN "" ELSE config[1].phoneNumberId
                /\ rec.whatsappStatus = "received"
                /\ rec.bookingId = NULL
                /\ rec.guestId = MatchedGuestId(p.contacts[1].wa_id)
                /\ UNCHANGED <<properties, guests, bookings, maintenanceTasks, expenses>>
          /\ HasNoMessages(p) => store' = store ]_vars

\* two guests share a normalized phone and an incoming message from that
\* number, written differently from the first guest's phone, names the first
C16_Witness ==
    /\ JustIncoming
    /\ Len(guests) = 2
    /\ guests[1].v.phone = "11987654321"
    /\ Len(messages) > 0
    /\ messages[Len(messages)].v.fromNumber = "5511987654321"
    /\ messages[Len(messages)].v.guestId = guests[1].v.id

-----------------------------------------------------------------------------
(* C18 *)

HandlerOps == {"processIncomingMessage", "processStatusUpdate"}

\* C18: for every payload, malformed ones included, processIncomingMessage
\* and processStatusUpdate end without raising an error to their caller.
C18_HandlersNeverRaise ==
    [][ (last'.op \in HandlerOps /\ ops' = ops + 1) =>
          /\ last'.ok
          /\ last'.err = "" ]_vars

\* processIncomingMessage was given null for a payload and ended normally,
\* with messages stored before it untouched
C18_Witness ==
    /\ JustIncoming
    /\ Has(last.arg[1], "js")
    /\ last.arg[1].js = "null"
    /\ last.ok
    /\ Len(messages) > 0

-----------------------------------------------------------------------------
(* C19 *)

\* C19: every POST to the webhook route is answered with 200, whatever the
\* body holds and whatever happens while entries and changes are dispatched.
C19_WebhookAcknowledged ==
    [][ (last'.op = "postWebhook" /\ ops' = ops + 1) =>
          last'.ret[1].status = 200 ]_vars

-----------------------------------------------------------------------------
(* C20 *)

PhoneQueries == {"pn1", "5511987654321", "11987654321"}

\* the positions of the stored messages of the WhatsApp channel that carry
\* phone as fromNumber or toNumber; all of the channel when phone is None
WhatsAppPositions(phone) ==
    {i \in 1..Len(messages) :
        /\ messages[i].v.channel = "whatsapp"
        /\ phone /= None =>
              \/ messages[i].v.fromNumber = phone[1]
              \/ messages[i].v.toNumber = phone[1]}

\* list holds the joined views of exactly the messages at positions
Exactly(list, positions) ==
    /\ Len(list) = Cardinality(positions)
    /\ Range(list) = {getMessages[i] : i \in positions}

\* C20: getWhatsAppMessages() without a phone number (none given, or an empty
\* one) returns exactly the stored messages of channel whatsapp; with a phone
\* number it returns exactly those of them whose fromNumber or toNumber is
\* that string, no normalization applied to either side.
C20_WhatsAppMessages ==
    /\ Exactly(getWhatsAppMessages(None), WhatsAppPositions(None))
    /\ Exactly(getWhatsAppMessages(Some("")), WhatsAppPositions(None))
    /\ \A phone \in PhoneQueries :
          Exactly(getWhatsAppMessages(Some(phone)), WhatsAppPositions(Some(phone)))

\* an internal message and WhatsApp messages are stored; the sender id finds
\* some, a number written without its country code finds none
C20_Witness ==
    /\ \E i \in 1..Len(messages) : messages[i].v.channel = "internal"
    /\ \E i \in 1..Len(messages) : messages[i].v.toNumber = "pn1"
    /\ Len(getWhatsAppMessages(None)) < Len(messages)
    /\ Len(getWhatsAppMessages(Some("pn1"))) > 0
    /\ Len(getWhatsAppMessages(Some("5511987654321"))) > 0
    /\ getWhatsAppMessages(Some("11987654321")) = <<>>

-----------------------------------------------------------------------------
(* C21 *)

JustPosted == last.op = "postBooking"

\* the first stored guest with the email the body supplies, if any
GuestWithEmail(body) ==
    LET hits == {i \in 1..Len(guests) :
                    Has(body, "guestEmail") /\ guests[i].v.email = body.guestEmail} IN
    IF hits = {} THEN None
    ELSE Some(guests[CHOOSE i \in hits : \A j \in hits : i <= j].v)

\* C21: the booking-creation route resolves the guest first. With a stored
\* guest of the supplied email no guest is created and the booking names
\* that guest; with none stored and guestData supplied exactly one guest is
\* created and the booking names it; with none stored and no guestData the
\* request is rejected and neither a guest nor a booking is created.
C21_GuestResolvedFirst ==
    [][ (JustPosted' /\ ops' = ops + 1) =>
          LET body    == last'.arg[1]
              found   == GuestWithEmail(body)
              booking == bookings'[Len(bookings')].v IN
          /\ found /= None =>
                /\ guests' = guests
                /\ Len(bookings') = Len(bookings) + 1
                /\ booking.guestId = found[1].id
          /\ (found = None /\ Has(body, "guestData")) =>
                /\ Len(guests') = Len(guests) + 1
                /\ SubSeq(guests', 1, Len(guests)) = guests
                /\ Len(bookings') = Len(bookings) + 1
                /\ booking.guestId = guests'[Len(guests')].k
                /\ guests'[Len(guests')].v.id = booking.guestId
          /\ (found = None /\ ~Has(body, "guestData")) =>
                /\ last'.ret[1].status = 400
                /\ guests' = guests
                /\ bookings' = bookings ]_vars

-----------------------------------------------------------------------------
(* C22 *)

\* C22: the content of a stored incoming message is its text body for a
\* text, "[Imagem]" for an image, "[Documento]" for a document, "[Áudio]"
\* for an audio and "[Mensagem não suportada]" for anything else; of several
\* parts text wins over image, image over document, document over audio.
C22_ContentByKind ==
    [][ (JustIncoming' /\ ops' = ops + 1 /\ HasMessageAndContact(last'.arg[1])) =>
          LET message == last'.arg[1].messages[1]
              content == messages'[Len(messages')].v.content
              has(part) == part \in DOMAIN message IN
          /\ Len(messages') = Len(messages) + 1
          /\ has("text") => content = message.text.body
          /\ (has("image") /\ ~has("text")) => content = "[Imagem]"
          /\ (has("document") /\ ~has("text") /\ ~has("image"))
                => content = "[Documento]"
          /\ (has("audio") /\ ~has("text") /\ ~has("image") /\ ~has("document"))
                => content = "[Áudio]"
          /\ (~has("text") /\ ~has("image") /\ ~has("document") /\ ~has("audio"))
                => content = "[Mensagem não suportada]" ]_vars

\* a message carrying an image and a document was stored as an image
C22_Witness ==
    /\ JustIncoming
    /\ Has(last.arg[1], "messages")
    /\ DOMAIN last.arg[1].messages[1] = {"id", "type", "image", "document"}
    /\ Len(messages) > 0
    /\ messages[Len(messages)].v.content = "[Imagem]"

-----------------------------------------------------------------------------
(* C23 *)

\* C23: createBooking does not check its references: the booking it returns
\* is stored whatever its guestId and propertyId name; getBooking(id) finds
\* a booking exactly when it is stored and both its guest and its property
\* are stored; a stored booking that getBooking does not find is still found
\* by updateBooking and deleteBooking.
C23_UncheckedReferences ==
    /\ (JustCreated /\ last.kind = "Booking") =>
          MapGet(bookings, last.key) = last.ret
    /\ \A id \in AllIds :
          getBooking(id) /= None <=>
              /\ MapHas(bookings, id)
              /\ Resolves(MapGet(bookings, id)[1])
    /\ \A i \in 1..Len(bookings) :
          LET key == bookings[i].k
              change == [notes |-> "late"] IN
          getBooking(key) = None =>
              /\ updateResult(bookings, key, change)
                    = Some(Spread(bookings[i].v, change))
              /\ MapHas(updated(bookings, key, change), key)
              /\ MapHas(bookings, key) /\ ~MapHas(MapDelete(bookings, key), key)

\* a booking was just created naming a property that is not stored: it is
\* in the store and getBooking does not find it
C23_Witness ==
    /\ JustCreated
    /\ last.kind = "Booking"
    /\ ~MapHas(properties, last.ret[1].propertyId)
    /\ MapHas(bookings, last.key)
    /\ getBooking(last.key) = None

-----------------------------------------------------------------------------
(* C24 *)

\* the external id a status update step names, "" if it names none
UpdatedId(call) ==
    IF /\ call.op = "processStatusUpdate"
       /\ Has(call.arg[1], "statuses")
       /\ Len(call.arg[1].statuses) > 0
    THEN call.arg[1].statuses[1].id
    ELSE ""

\* C24: a status update for an external id that no stored message carries,
\* processed while a send call is waiting for the provider, changes nothing
\* and leaves nothing behind to be applied later; the message a send call
\* then stores has whatsappStatus "sent"; and the whatsappStatus of a stored
\* message changes only in a status update for its own external id.
C24_EarlyStatusDropped ==
    [][ /\ ( /\ JustStatusUpdate' /\ ops' = ops + 1
             /\ Len(inflight) > 0
             /\ UpdatedId(last') /= ""
             /\ FirstWith(UpdatedId(last')) = 0 ) =>
                /\ last'.ret = None
                /\ UNCHANGED <<store, uuids, now, config, inflight>>
        /\ ( /\ Answered
             /\ last'.arg[2].status = 200
             /\ Len(last'.arg[2].messages) > 0 ) =>
                /\ Len(messages') = Len(messages) + 1
                /\ SubSeq(messages', 1, Len(messages)) = messages
                /\ messages'[Len(messages')].v.whatsappMessageId
                      = last'.arg[2].messages[1].id
                /\ messages'[Len(messages')].v.whatsappStatus = "sent"
        /\ \A i \in 1..Len(messages) :
              ( \/ Len(messages') < i
                \/ messages'[i].v.whatsappStatus /= messages[i].v.whatsappStatus ) =>
                 /\ JustStatusUpdate' /\ ops' = ops + 1
                 /\ UpdatedId(last') = messages[i].v.whatsappMessageId ]_vars

\* a status update for wamid2 found no message while a send call was waiting
C24_Witness ==
    /\ JustStatusUpdate
    /\ UpdatedId(last) = "wamid2"
    /\ last.ret = None
    /\ Len(inflight) > 0
    /\ FirstWith("wamid2") = 0
    /\ Len(messages) > 0

-----------------------------------------------------------------------------
(* C25 *)

\* the suspended calls without the i-th
Without(calls, i) ==
    [j \in 1..(Len(calls) - 1) |-> IF j < i THEN calls[j] ELSE calls[j + 1]]

\* C25: the message a send call stores has as fromNumber the sender id its
\* own request was addressed to, whatever happened to the configuration
\* while the call was waiting.
C25_FromNumberOfRequest ==
    [][ ( /\ Answered
          /\ last'.arg[2].status = 200
          /\ Len(last'.arg[2].messages) > 0 ) =>
          \E i \in 1..Len(inflight) :
             /\ inflight' = Without(inflight, i)
             /\ inflight[i].args = last'.arg[1]
             /\ messages'[Len(messages')].v.fromNumber
                   = inflight[i].phoneNumberId ]_vars

-----------------------------------------------------------------------------
(* C30 *)

JustConfigured == last.op = "postConfig"

\* every one of the three fields is there and non-empty
Complete(c) ==
    \A f \in {"accessToken", "phoneNumberId", "verifyToken"} :
        Has(c, f) /\ c[f] /= ""

\* the configuration is unset or complete, and isConfigured() holds exactly
\* when one is set
UnsetOrComplete ==
    /\ config = None \/ Complete(config[1])
    /\ isConfigured <=> config /= None

\* C30: through the configuration route the configuration is always unset
\* or has a non-empty access token, sender id and verification token, so
\* isConfigured() holds exactly when one is set; a request missing any of
\* the three is rejected with 400 and leaves the configuration as it was,
\* any other replaces it by the fields of the request.
C30_ConfigRoute ==
    /\ []UnsetOrComplete
    /\ [][ (JustConfigured' /\ ops' = ops + 1) =>
          LET body == last'.arg[1] IN
          IF Complete(body)
          THEN /\ last'.ret[1].status = 200
               /\ config' /= None
               /\ \A f \in {"accessToken", "phoneNumberId", "verifyToken"} :
                     config'[1][f] = body[f]
          ELSE /\ last'.ret[1].status = 400
               /\ config' = config ]_vars

\* a request without a verification token was rejected and the
\* configuration set before is still there
C30_Witness ==
    /\ JustConfigured
    /\ ~Has(last.arg[1], "verifyToken")
    /\ last.ret[1].status = 400
    /\ config /= None
    /\ isConfigured

-----------------------------------------------------------------------------
(* C26 *)

\* C26: an update call runs from its read to its write as one step, so of
\* two update calls on the same record, in either order, none is lost: the
\* stored record holds every field of the later call at the later call's
\* value, every field only the earlier call supplied at the earlier call's
\* value, and every other field as it was.
C26_NoLostUpdate ==
    [][ \A kind \in Kinds : \A id \in AllIds :
          ( /\ JustUpdated /\ last.ok /\ last.kind = kind /\ last.key = id
            /\ JustUpdated' /\ last'.kind = kind /\ last'.key = id
            /\ ops' = ops + 1 ) =>
          LET earlier == last.arg[1]
              later   == last'.arg[1]
              before  == MapGet(Coll(kind), id)[1]
              rec     == MapGet(Coll(kind)', id)[1] IN
          /\ MapHas(Coll(kind)', id)
          /\ last'.ok
          /\ \A f \in DOMAIN later : f \in DOMAIN rec /\ rec[f] = later[f]
          /\ \A f \in (DOMAIN earlier) \ (DOMAIN later) :
                f \in DOMAIN rec /\ rec[f] = earlier[f]
          /\ \A f \in (DOMAIN before) \ (DOMAIN later) :
                f \in DOMAIN rec /\ rec[f] = before[f] ]_vars

\* a booking updated by one caller (status confirmed, notes a) was then
\* updated by the other (status cancelled, checkOut 12)
C26_Witness ==
    /\ JustUpdated
    /\ last.kind = "Booking"
    /\ last.ok
    /\ last.arg[1] = [status |-> "cancelled", checkOut |-> 12]
    /\ last.ret[1].notes = "a"
    /\ last.ret[1].status = "cancelled"
    /\ MapGet(bookings, last.key) = last.ret

-----------------------------------------------------------------------------
(* C27 *)

\* C27: processIncomingMessage on a payload with a message and a contact
\* adds exactly one message to the store, built from the first message of
\* the payload whatever follows it, also when a message with the same
\* whatsappMessageId is stored already.
C27_OneMessagePerCall ==
    [][ ( /\ JustIncoming' /\ ops' = ops + 1
          /\ HasMessageAndContact(last'.arg[1]) ) =>
          LET p   == last'.arg[1]
              rec == messages'[Len(messages')].v IN
          /\ Len(messages') = Len(messages) + 1
          /\ SubSeq(messages', 1, Len(messages)) = messages
          /\ Has(p.messages[1], "id") => rec.whatsappMessageId = p.messages[1].id
          /\ rec.content = messageContent(p.messages[1])
          /\ uuids' = uuids + 1 ]_vars

\* the payload with two messages was processed twice: two messages with the
\* whatsappMessageId of its first message are stored, none with that of its
\* second
C27_Witness ==
    /\ JustIncoming
    /\ HasMessageAndContact(last.arg[1])
    /\ Len(last.arg[1].messages) = 2
    /\ Len(messages) = 2
    /\ messages[1].v.whatsappMessageId = "wamid1"
    /\ messages[2].v.whatsappMessageId = "wamid1"
    /\ messages[1].v.direction = "incoming"
    /\ messages[1].k /= messages[2].k

-----------------------------------------------------------------------------
(* C28 *)

\* the payload has a message and no contact entry
HasMessageButNoContact(p) ==
    /\ ~Has(p, "js")
    /\ ~Has(p, "scalars")
    /\ Has(p, "messages")
    /\ Len(p.messages) > 0
    /\ Has(p, "contacts") => Len(p.contacts) = 0

\* C28: processIncomingMessage on a payload that has messages and no
\* contact entry stores no message and leaves the whole store unchanged.
C28_NoContactNothingStored ==
    [][ ( /\ JustIncoming' /\ ops' = ops + 1
          /\ HasMessageButNoContact(last'.arg[1]) ) =>
          /\ store' = store
          /\ uuids' = uuids
          /\ last'.err = "" ]_vars

\* a payload with a message and an empty contact list was processed on a
\* store that holds a message, and its message is not there
C28_Witness ==
    /\ JustIncoming
    /\ last.arg[1] = [messages |-> <<WellFormedMessage>>, contacts |-> <<>>]
    /\ Len(messages) > 0
    /\ FirstWith(WellFormedMessage.id) = 0

-----------------------------------------------------------------------------
(* C29 *)

\* the phone has 11 digits, the first two of them "11"
ElevenOfAreaEleven(phone) ==
    Len(cleaned(phone)) = 11 /\ startsWith(cleaned(phone), <<"1", "1">>)

\* normalizing what normalizePhoneNumber returned returns it again, and 11
\* digits of area 11 normalize to what the same digits after "55" normalize to
NormalizedOnce ==
    JustNormalized =>
        LET phone == last.arg[1]
            once  == last.ret[1] IN
        /\ once = normalizePhoneNumber(phone)
        /\ normalizePhoneNumber(once) = once
        /\ ElevenOfAreaEleven(phone) =>
              normalizePhoneNumber(<<"5", "5">> \o cleaned(phone)) = once

\* C29: normalizePhoneNumber is idempotent, so a guest phone of 11 digits
\* starting with "11" and a contact id that is the same number after "55"
\* normalize to the same value, and an incoming message from that contact is
\* matched with a guest.
C29_Idempotent ==
    /\ []NormalizedOnce
    /\ [][ ( /\ JustIncoming' /\ ops' = ops + 1
             /\ HasMessageAndContact(last'.arg[1]) ) =>
             LET wa_id == last'.arg[1].contacts[1].wa_id
                 rec   == messages'[Len(messages')].v IN
             \A i \in 1..Len(guests) :
                ( /\ ElevenOfAreaEleven(Chars(guests[i].v.phone))
                  /\ Chars(wa_id) = <<"5", "5">> \o Chars(guests[i].v.phone) ) =>
                   /\ rec.guestId /= NULL
                   /\ rec.guestId = MatchedGuestId(wa_id)
                   /\ \E j \in 1..i : rec.guestId = guests[j].v.id ]_vars

\* ten digits were normalized to fourteen, which normalize to themselves
C29_Witness ==
    /\ JustNormalized
    /\ Len(cleaned(last.arg[1])) = 10
    /\ Len(last.ret[1]) = 14
    /\ last.ret[1] /= last.arg[1]
    /\ normalizePhoneNumber(last.ret[1]) = last.ret[1]

====
